---- MODULE Spec2Model ----
(***************************************************************************)
(* Payment completion and reminder notification engine of the KGC portal   *)
(* API (src/index.js), over the relational schema of src/unnamed/part_000. *)
(*                                                                         *)
(* Money is kept in cents: the code's amountCents / 100 stored in a        *)
(* DECIMAL(10,2) column is the same number of cents.  Dates are day        *)
(* ordinals (day 0 is 2026-01-01), instants are hours since that day's     *)
(* 00:00 UTC.                                                              *)
(***************************************************************************)
EXTENDS Integers, Sequences, FiniteSets, Bags, TLC

\* ------------------------------------------------------------------ bounds
NumClients == 2
MaxRequests == 2
MaxFaults == 1

\* --------------------------------------------------------------- constants
Clients == 1..NumClients
NoClient == 0
NoInvoice == "none"
InvoiceNumbers == {"DI-2026-1000", "1"}
InvoiceTypes == {"tasting", "deposit", "final", "other"}
NoType == ""

\* JavaScript `type || fallback`: an absent or empty type is falsy.
TypeOr(type, fallback) == IF type = NoType THEN fallback ELSE type
InvoiceStatuses == {"draft", "sent", "pending_verification", "paid"}
AmountsCents == {25000}
Slots == {1, 2}
\* data.payment_method of an invoice row: none, the webhook's 'card', or the
\* offline routes' default method.
NoMethod == ""
PaymentMethod == "zelle"

\* The text of an invoice number read as an INTEGER: -1 when the text is
\* not an integer (PostgreSQL raises "invalid input syntax for type integer").
IntegerOfText(n) == IF n = "1" THEN 1 ELSE -1

\* ---------------------------------------------------------------- calendar
\* Days before each month (1..12) of a common year; 2025-2027 are common years.
CumDays == <<0, 31, 59, 90, 120, 151, 181, 212, 243, 273, 304, 334, 365>>

\* ECMAScript MakeDay / Date.UTC(year, monthIndex, day): the day ordinal of day
\* `day` of month index `mIdx` (0-based), where `day` may run below 1 or past
\* the end of the month.
DateUTC(year, mIdx, day) ==
    (year + (mIdx \div 12) - 2026) * 365 + CumDays[(mIdx % 12) + 1] + day - 1

\* Date.prototype.toISOString().split('T')[0] of a day ordinal: <<year, month, day>>.
ISODate(ord) ==
    LET doy == ord % 365
        m == CHOOSE k \in 1..12 : CumDays[k] <= doy /\ doy < CumDays[k + 1]
    IN  <<2026 + (ord \div 365), m, doy - CumDays[m] + 1>>

\* PostgreSQL's reading of a 'YYYY-MM-DD' text into a DATE column.
DateOfText(ymd) == (ymd[1] - 2026) * 365 + CumDays[ymd[2]] + ymd[3] - 1

\* node-postgres returns a DATE column as a JS Date at local midnight of the
\* server zone (offset `off` hours from UTC); the instant in hours.
LocalMidnight(ord, off) == 24 * ord - off

\* The server clock runs in the business's zone, America/Los_Angeles (UTC-8).
ServerZoneOffset == -8

\* ------------------------------------------------------------------- state
VARIABLES
    invoices,       \* table invoices: set of rows [id, number, type, amount, status,
                    \*   client, method], method being data->>'payment_method'
    nextInvoiceId,  \* invoices.id SERIAL
    clients,        \* table clients: client id -> [status, eventDate, email (is set)]
    portal,         \* table portal_data: client id -> [exists, tastingPaid, depositPaid, finalPaid]
    calendar,       \* table calendar_events: bag of [client, date, type]
    revenue,        \* table revenue: bag of [client, invoice, amount, type, ref]
    ledger,         \* table reminders_sent: bag of [client, type]
    proposals,      \* table proposals: set of rows [id, client, status, signedAt]
    outbox,         \* messages the mail transport accepted: bag of [to, client, kind, ref]
    req,            \* request slots: the position of each in-flight HTTP handler
    sweep,          \* sweep slots: the position of each running reminder sweep
    pay,            \* the payment the processor and the client report in this behaviour
    now,            \* current instant, hours
    faults,         \* store / transport / generator failures injected so far
    started,        \* requests and sweeps started so far
    settings,       \* table settings: the row of key 'email_templates'
    draft           \* the notification being composed: template key, values,
                    \*   the loaded template, the rendered subject and body

storeVars == <<invoices, nextInvoiceId, clients, portal, calendar, revenue, ledger, proposals,
               settings>>
vars == <<invoices, nextInvoiceId, clients, portal, calendar, revenue, ledger, proposals,
          settings, outbox, req, sweep, pay, now, faults, started, draft>>

\* No 'email_templates' row; no notification being composed.
NoCustom == [k \in {"none"} |-> [type |-> "null"]]
NoSettings == [row |-> FALSE, parses |-> FALSE, object |-> FALSE, custom |-> NoCustom]
NoDraft == [stage |-> "none"]

NoDate == -1
ClientStatuses == {"inquiry", "booked"}
ReminderKinds == {"deposit-reminder", "one_month", "two_week"}

Add(bag, e) == bag (+) SetToBag({e})

\* ------------------------------------------------------------ store access
InvoiceByNumber(n) == {r \in invoices : r.number = n}

\* A statement either runs or fails (connection loss, timeout, a rejected
\* value); at most MaxFaults failures are injected in one behaviour.
CanFail(ok) == ok \/ faults < MaxFaults
Count(ok) == IF ok THEN faults ELSE faults + 1

\* UPDATE invoices SET status = 'paid', amount = COALESCE(NULLIF(amount, 0), $2)
\* WHERE invoice_number = $1
MarkPaidKeepAmount(n, amount) ==
    {IF r.number = n
       THEN [r EXCEPT !.status = "paid",
                      !.amount = IF r.amount = 0 THEN amount ELSE r.amount]
       ELSE r : r \in invoices}

\* UPDATE invoices SET status = 'paid' WHERE invoice_number = $1
MarkPaid(n) ==
    {IF r.number = n THEN [r EXCEPT !.status = "paid"] ELSE r : r \in invoices}

\* Variant: the claim marks the invoice paid.
MarkPendingVerification_Paid(n, method) ==
    {IF r.number = n THEN [r EXCEPT !.status = "paid", !.method = method] ELSE r
       : r \in invoices}

\* UPDATE invoices SET status = 'pending_verification',
\*   data = COALESCE(data, '{}') || '{"payment_method": <method>}' WHERE invoice_number = $1
MarkPendingVerification(n, method) ==
    {IF r.number = n
       THEN [r EXCEPT !.status = "pending_verification", !.method = method]
       ELSE r : r \in invoices}

\* Variant: invoice_number without its UNIQUE constraint.
InsertAccepted_Always(n) == n = n

\* INSERT INTO invoices ...: UNIQUE (invoice_number) rejects a second row of a
\* number; the row takes the next SERIAL id.
InsertAccepted(n) == InvoiceByNumber(n) = {}
\* Variant: the inserted row does not carry the amount.
InsertInvoice_NoAmount(n, type, amount, status, client, method) ==
    invoices \cup {[id |-> nextInvoiceId, number |-> n, type |-> type,
                    amount |-> 0, status |-> status, client |-> client,
                    method |-> method]}

InsertInvoice(n, type, amount, status, client, method) ==
    invoices \cup {[id |-> nextInvoiceId, number |-> n, type |-> type,
                    amount |-> amount, status |-> status, client |-> client,
                    method |-> method]}

\* A client without a portal_data row.
NoPortalRow == [exists |-> FALSE, tastingPaid |-> FALSE, depositPaid |-> FALSE,
                finalPaid |-> FALSE]
\* Variant: the row is replaced, INSERT ... ON CONFLICT DO UPDATE SET every
\* column to the inserted row's.
UpsertPaidFlag_Replace(c, flag) ==
    [portal EXCEPT ![c] = [NoPortalRow EXCEPT !.exists = TRUE, ![flag] = TRUE]]

\* INSERT INTO portal_data ... ON CONFLICT (client_id) DO UPDATE SET <flag> = TRUE
UpsertPaidFlag(c, flag) ==
    [portal EXCEPT ![c] = [portal[c] EXCEPT !.exists = TRUE, ![flag] = TRUE]]

\* INSERT INTO revenue (client_id, invoice_id, ...): invoice_id is
\* INTEGER REFERENCES invoices(id), and the handlers pass the invoice number.
RevenueInvoiceRef(n) == IF n = NoInvoice THEN 0 ELSE IntegerOfText(n)
RevenueAccepted(n) ==
    \/ n = NoInvoice
    \/ /\ IntegerOfText(n) >= 0
       /\ \E r \in invoices : r.id = IntegerOfText(n)

\* ------------------------------------------------- calendar entries (deposit)
\* createEventPrepCalendarEvent: the 8 rows it inserts, in order, for a client
\* whose event_date is set: 7 'prep' rows (i = 7 .. 1) and the 'event' row.
eventDateStr(c) == ISODate(LocalMidnight(clients[c].eventDate, ServerZoneOffset) \div 24)

\* Variant: the prep loop runs i = 6 .. 0, one day late.
createEventPrepCalendarEvent_Late(c) ==
    LET ymd == eventDateStr(c)
    IN  [j \in 1..8 |->
           IF j <= 7
             THEN [client |-> c, type |-> "prep",
                   date |-> DateOfText(ISODate(DateUTC(ymd[1], ymd[2] - 1, ymd[3] - (7 - j))))]
             ELSE [client |-> c, type |-> "event", date |-> DateOfText(ymd)]]

createEventPrepCalendarEvent(c) ==
    LET ymd == eventDateStr(c)
    IN  [j \in 1..8 |->
           IF j <= 7
             THEN [client |-> c, type |-> "prep",
                   date |-> DateOfText(ISODate(DateUTC(ymd[1], ymd[2] - 1, ymd[3] - (8 - j))))]
             ELSE [client |-> c, type |-> "event", date |-> DateOfText(ymd)]]

RECURSIVE AddFirst(_, _, _)
AddFirst(bag, rows, k) ==
    IF k = 0 THEN bag ELSE Add(AddFirst(bag, rows, k - 1), rows[k])

\* ------------------------------------------------------------ request slots
Idle(resp) == [pc |-> "idle", h |-> "none", resp |-> resp]
At(s, h, pc) == req[s].h = h /\ req[s].pc = pc
Goto(s, pc) == req' = [req EXCEPT ![s].pc = pc]
Respond(s, code) == req' = [req EXCEPT ![s] = Idle(code)]
\* A request is accepted into the lowest free slot.
Free(s) ==
    /\ req[s].pc = "idle"
    /\ \A t \in Slots : t < s => req[t].pc # "idle"
    /\ started < MaxRequests

CompletionEventTypes == {"checkout.session.completed", "payment_intent.succeeded"}
EventTypes == CompletionEventTypes \cup {"charge.refunded"}

ConfirmationKind(type) ==
    CASE type = "tasting" -> "tasting-confirmed"
      [] type = "deposit" -> "booking-confirmed"
      [] type = "final" -> "paid-in-full"
      [] OTHER -> "payment-confirmed"

\* ----------------------------------------------- POST /api/payments/webhook
\* Signature check and dispatch on the event type.  `secret` is whether
\* STRIPE_WEBHOOK_SECRET is set when the request is handled: with none, the
\* body is parsed without any verification.
Webhook(s, secret, etype, sigOk) ==
    /\ Free(s)
    /\ started' = started + 1
    /\ req' = [req EXCEPT ![s] =
                 IF secret /\ ~sigOk THEN Idle("400 Webhook Error")
                 ELSE IF etype \in CompletionEventTypes
                        THEN [pc |-> "invoice", h |-> "webhook", resp |-> ""]
                        ELSE Idle("200 received")]
    /\ UNCHANGED <<storeVars, outbox, sweep, pay, draft, now, faults>>

\* handlePaymentCompleted, first effect: UPDATE the invoice of the reported number.
HpcInvoiceUpdate(s, ok) ==
    /\ At(s, "webhook", "invoice")
    /\ CanFail(ok)
    /\ pay.invoiceId = NoInvoice => ok
    /\ faults' = Count(ok)
    /\ IF pay.invoiceId = NoInvoice \/ ~ok
         THEN Goto(s, "client") /\ UNCHANGED invoices
         ELSE IF InvoiceByNumber(pay.invoiceId) = {}
                THEN Goto(s, "insert") /\ UNCHANGED invoices
                ELSE /\ invoices' = MarkPaidKeepAmount(pay.invoiceId, pay.amount)
                     /\ Goto(s, "client")
    /\ UNCHANGED <<nextInvoiceId, clients, portal, calendar, revenue, ledger, proposals, settings,
                   outbox, sweep, pay, draft, now, started>>

\* ... rowCount === 0: INSERT the invoice as paid with the event's amount.
HpcInvoiceInsert(s, ok) ==
    /\ At(s, "webhook", "insert")
    /\ CanFail(ok)
    /\ faults' = Count(ok)
    /\ IF ok /\ InsertAccepted(pay.invoiceId)
         THEN invoices' = InsertInvoice(pay.invoiceId, TypeOr(pay.invoiceType, "other"),
                                        pay.amount, "paid", pay.clientId, "card")
         ELSE UNCHANGED invoices
    /\ nextInvoiceId' = IF ok THEN nextInvoiceId + 1 ELSE nextInvoiceId
    /\ Goto(s, "client")
    /\ UNCHANGED <<clients, portal, calendar, revenue, ledger, proposals, settings,
                   outbox, sweep, pay, draft, now, started>>

\* Statements of the client-status block for an invoice type: deposit runs the
\* UPDATE of clients, the portal_data upsert, then createEventPrepCalendarEvent
\* (a SELECT and, when the client has an event date, 8 INSERTs).
ClientStatements(type, c) ==
    CASE type = "tasting" -> 1
      [] type = "deposit" -> IF clients[c].eventDate = NoDate THEN 3 ELSE 11
      [] type = "final" -> 1
      [] OTHER -> 0

Ran(i, f) == f = 0 \/ i < f

\* The block's effect when its f-th statement fails (f = 0: none fails): the
\* statements before it have run, the rest are skipped.
ApplyPaidEffects(type, c, f) ==
    /\ clients' = IF type = "deposit" /\ Ran(1, f)
                    THEN [clients EXCEPT ![c].status = "booked"] ELSE clients
    /\ portal' = CASE type = "tasting" /\ Ran(1, f) -> UpsertPaidFlag(c, "tastingPaid")
                   [] type = "deposit" /\ Ran(2, f) -> UpsertPaidFlag(c, "depositPaid")
                   [] type = "final" /\ Ran(1, f) -> UpsertPaidFlag(c, "finalPaid")
                   [] OTHER -> portal
    /\ calendar' = IF type = "deposit" /\ Ran(3, f) /\ clients[c].eventDate # NoDate
                     THEN AddFirst(calendar, createEventPrepCalendarEvent(c),
                                   IF f = 0 THEN 8 ELSE f - 4)
                     ELSE calendar

\* handlePaymentCompleted, second effect: client status, PortalData, calendar.
HpcClientStatus(s, f) ==
    /\ At(s, "webhook", "client")
    /\ IF pay.clientId = NoClient \/ pay.invoiceType = NoType
         THEN f = 0 /\ UNCHANGED <<clients, portal, calendar>>
         ELSE /\ f \in 0..ClientStatements(pay.invoiceType, pay.clientId)
              /\ ApplyPaidEffects(pay.invoiceType, pay.clientId, f)
    /\ CanFail(f = 0)
    /\ faults' = Count(f = 0)
    /\ Goto(s, "revenue")
    /\ UNCHANGED <<invoices, nextInvoiceId, revenue, ledger, proposals, settings,
                   outbox, sweep, pay, draft, now, started>>

\* Variant: one try block around all five effects, so that a failing revenue
\* statement ends the handler.
HpcRevenue_Abort(s, ok) ==
    /\ At(s, "webhook", "revenue")
    /\ CanFail(ok)
    /\ pay.clientId = NoClient => ok
    /\ faults' = Count(ok)
    /\ revenue' = IF pay.clientId # NoClient /\ ok /\ RevenueAccepted(pay.invoiceId)
                    THEN Add(revenue, [client |-> pay.clientId,
                                       invoice |-> RevenueInvoiceRef(pay.invoiceId),
                                       amount |-> pay.amount,
                                       type |-> TypeOr(pay.invoiceType, "other"),
                                       ref |-> "stripe"])
                    ELSE revenue
    /\ IF ok THEN Goto(s, "owner") ELSE Respond(s, "200 received")
    /\ UNCHANGED <<invoices, nextInvoiceId, clients, portal, calendar, ledger, proposals, settings,
                   outbox, sweep, pay, draft, now, started>>

\* handlePaymentCompleted, third effect: INSERT INTO revenue.
HpcRevenue(s, ok) ==
    /\ At(s, "webhook", "revenue")
    /\ CanFail(ok)
    /\ pay.clientId = NoClient => ok
    /\ faults' = Count(ok)
    /\ revenue' = IF pay.clientId # NoClient /\ ok /\ RevenueAccepted(pay.invoiceId)
                    THEN Add(revenue, [client |-> pay.clientId,
                                       invoice |-> RevenueInvoiceRef(pay.invoiceId),
                                       amount |-> pay.amount,
                                       type |-> TypeOr(pay.invoiceType, "other"),
                                       ref |-> "stripe"])
                    ELSE revenue
    /\ Goto(s, "owner")
    /\ UNCHANGED <<invoices, nextInvoiceId, clients, portal, calendar, ledger, proposals, settings,
                   outbox, sweep, pay, draft, now, started>>

\* handlePaymentCompleted, fourth effect: the owner's notification.  `token`
\* is whether the settings table holds a gmail_refresh_token when it is read.
HpcOwnerMail(s, token, ok) ==
    /\ At(s, "webhook", "owner")
    /\ CanFail(ok)
    /\ faults' = Count(ok)
    /\ outbox' = IF token /\ ok
                   THEN Add(outbox, [to |-> "owner", client |-> pay.clientId,
                                     kind |-> "payment-received", ref |-> "stripe"])
                   ELSE outbox
    /\ Goto(s, "mail")
    /\ UNCHANGED <<storeVars, sweep, pay, draft, now, started>>

\* handlePaymentCompleted, fifth effect: the client's confirmation; then the
\* route answers { received: true }.  `pdf` is whether the receipt generator
\* works: when it fails the mail goes out without the attachment.
HpcClientMail(s, token, pdf, ok) ==
    /\ At(s, "webhook", "mail")
    /\ CanFail(ok /\ pdf)
    /\ ~pay.hasEmail => ok /\ pdf
    /\ ~token => pdf
    /\ faults' = Count(ok /\ pdf)
    /\ outbox' = IF pay.hasEmail /\ token /\ ok
                   THEN Add(outbox, [to |-> "client", client |-> pay.clientId,
                                     kind |-> ConfirmationKind(pay.invoiceType),
                                     ref |-> "stripe"])
                   ELSE outbox
    /\ Respond(s, "200 received")
    /\ UNCHANGED <<storeVars, sweep, pay, draft, now, started>>

\* ---------------------------------------- POST /api/payments/offline-claimed
\* The client reports an offline payment.  `hasAmount` is whether the body
\* carries an amount: without one the route answers 400.
OfflineClaimed(s, hasAmount) ==
    /\ Free(s)
    /\ started' = started + 1
    /\ req' = [req EXCEPT ![s] =
                 IF hasAmount THEN [pc |-> "update", h |-> "claim", resp |-> ""]
                 ELSE Idle("400 Missing required field: amount")]
    /\ UNCHANGED <<storeVars, outbox, sweep, pay, draft, now, faults>>

\* UPDATE invoices SET status = 'pending_verification' WHERE invoice_number = $1
ClaimInvoiceUpdate(s, ok) ==
    /\ At(s, "claim", "update")
    /\ CanFail(ok)
    /\ pay.invoiceId = NoInvoice => ok
    /\ faults' = Count(ok)
    /\ IF pay.invoiceId = NoInvoice \/ ~ok
         THEN Goto(s, "notify") /\ UNCHANGED invoices
         ELSE IF InvoiceByNumber(pay.invoiceId) = {}
                THEN Goto(s, "insert") /\ UNCHANGED invoices
                ELSE /\ invoices' = MarkPendingVerification(pay.invoiceId, PaymentMethod)
                     /\ Goto(s, "notify")
    /\ UNCHANGED <<nextInvoiceId, clients, portal, calendar, revenue, ledger, proposals, settings,
                   outbox, sweep, pay, draft, now, started>>

\* ... rowCount === 0: INSERT the invoice as pending_verification.
ClaimInvoiceInsert(s, ok) ==
    /\ At(s, "claim", "insert")
    /\ CanFail(ok)
    /\ faults' = Count(ok)
    /\ IF ok /\ InsertAccepted(pay.invoiceId)
         THEN invoices' = InsertInvoice(pay.invoiceId, TypeOr(pay.invoiceType, "deposit"),
                                        pay.amount, "pending_verification", pay.clientId,
                                        PaymentMethod)
         ELSE UNCHANGED invoices
    /\ nextInvoiceId' = IF ok THEN nextInvoiceId + 1 ELSE nextInvoiceId
    /\ Goto(s, "notify")
    /\ UNCHANGED <<clients, portal, calendar, revenue, ledger, proposals, settings,
                   outbox, sweep, pay, draft, now, started>>

\* The owner's "verify this payment" mail, the communications log, and the
\* answer { success: true, status: 'pending_verification' }.
ClaimNotify(s, token, ok) ==
    /\ At(s, "claim", "notify")
    /\ CanFail(ok)
    /\ faults' = Count(ok)
    /\ outbox' = IF token /\ ok
                   THEN Add(outbox, [to |-> "owner", client |-> pay.clientId,
                                     kind |-> "verify-payment", ref |-> "offline"])
                   ELSE outbox
    /\ Respond(s, "200 pending_verification")
    /\ UNCHANGED <<storeVars, sweep, pay, draft, now, started>>

\* ----------------------------------------- POST /api/payments/offline-verify
\* The owner confirms an offline payment.
OfflineVerify(s, hasAmount) ==
    /\ Free(s)
    /\ started' = started + 1
    /\ req' = [req EXCEPT ![s] =
                 IF hasAmount THEN [pc |-> "invoice", h |-> "verify", resp |-> ""]
                 ELSE Idle("400 Missing required field: amount")]
    /\ UNCHANGED <<storeVars, outbox, sweep, pay, draft, now, faults>>

\* UPDATE invoices SET status = 'paid' WHERE invoice_number = $1 (no INSERT).
VerifyInvoice(s, ok) ==
    /\ At(s, "verify", "invoice")
    /\ CanFail(ok)
    /\ pay.invoiceId = NoInvoice => ok
    /\ faults' = Count(ok)
    /\ invoices' = IF pay.invoiceId # NoInvoice /\ ok
                     THEN MarkPaid(pay.invoiceId) ELSE invoices
    /\ Goto(s, "client")
    /\ UNCHANGED <<nextInvoiceId, clients, portal, calendar, revenue, ledger, proposals, settings,
                   outbox, sweep, pay, draft, now, started>>

\* Client status, PortalData and calendar, as in handlePaymentCompleted.
VerifyClientStatus(s, f) ==
    /\ At(s, "verify", "client")
    /\ IF pay.clientId = NoClient \/ pay.invoiceType = NoType
         THEN f = 0 /\ UNCHANGED <<clients, portal, calendar>>
         ELSE /\ f \in 0..ClientStatements(pay.invoiceType, pay.clientId)
              /\ ApplyPaidEffects(pay.invoiceType, pay.clientId, f)
    /\ CanFail(f = 0)
    /\ faults' = Count(f = 0)
    /\ Goto(s, "revenue")
    /\ UNCHANGED <<invoices, nextInvoiceId, revenue, ledger, proposals, settings,
                   outbox, sweep, pay, draft, now, started>>

\* INSERT INTO revenue, note '<Method> payment verified by admin'.
VerifyRevenue(s, ok) ==
    /\ At(s, "verify", "revenue")
    /\ CanFail(ok)
    /\ pay.clientId = NoClient => ok
    /\ faults' = Count(ok)
    /\ revenue' = IF pay.clientId # NoClient /\ ok /\ RevenueAccepted(pay.invoiceId)
                    THEN Add(revenue, [client |-> pay.clientId,
                                       invoice |-> RevenueInvoiceRef(pay.invoiceId),
                                       amount |-> pay.amount,
                                       type |-> TypeOr(pay.invoiceType, "other"),
                                       ref |-> "offline"])
                    ELSE revenue
    /\ Goto(s, "mail")
    /\ UNCHANGED <<invoices, nextInvoiceId, clients, portal, calendar, ledger, proposals, settings,
                   outbox, sweep, pay, draft, now, started>>

\* Variant: a failing transport or generator reaches the route's outer catch.
VerifyClientMail_Throws(s, token, pdf, ok) ==
    /\ At(s, "verify", "mail")
    /\ CanFail(ok /\ pdf)
    /\ ~pay.hasEmail => ok /\ pdf
    /\ ~token => pdf
    /\ faults' = Count(ok /\ pdf)
    /\ outbox' = IF pay.hasEmail /\ token /\ ok
                   THEN Add(outbox, [to |-> "client", client |-> pay.clientId,
                                     kind |-> ConfirmationKind(pay.invoiceType),
                                     ref |-> "offline"])
                   ELSE outbox
    /\ Respond(s, IF ok /\ pdf THEN "200 verified" ELSE "500 Failed to verify payment")
    /\ UNCHANGED <<storeVars, sweep, pay, draft, now, started>>

\* The client's confirmation; then the route answers { success: true }.  `pdf`
\* as in handlePaymentCompleted.
VerifyClientMail(s, token, pdf, ok) ==
    /\ At(s, "verify", "mail")
    /\ CanFail(ok /\ pdf)
    /\ ~pay.hasEmail => ok /\ pdf
    /\ ~token => pdf
    /\ faults' = Count(ok /\ pdf)
    /\ outbox' = IF pay.hasEmail /\ token /\ ok
                   THEN Add(outbox, [to |-> "client", client |-> pay.clientId,
                                     kind |-> ConfirmationKind(pay.invoiceType),
                                     ref |-> "offline"])
                   ELSE outbox
    /\ Respond(s, "200 verified")
    /\ UNCHANGED <<storeVars, sweep, pay, draft, now, started>>

\* ------------------------------------------------------ PUT /api/invoices/:id
\* UPDATE invoices SET status = $1, data = $3 ... WHERE id = $4: any status,
\* whatever the row's current one; the body's data (default {}) replaces the row's.
UpdateInvoice(id, status) ==
    /\ started < MaxRequests
    /\ started' = started + 1
    /\ \E r \in invoices : r.id = id
    /\ invoices' = {IF r.id = id THEN [r EXCEPT !.status = status, !.method = NoMethod]
                                  ELSE r : r \in invoices}
    /\ UNCHANGED <<nextInvoiceId, clients, portal, calendar, revenue, ledger, proposals, settings,
                   outbox, req, sweep, pay, draft, now, faults>>

\* ------------------------------------------------------------ reminder sweeps
\* A sweep slot holds one run of checkDepositReminders or checkUpcomingEvents:
\* the rows its query returned, the row it is at, its position in the loop
\* body, and the reminder kind of the window it found the client in.
NoSweep == [kind |-> "none", cands |-> <<>>, pos |-> 0, pc |-> "idle", win |-> "none"]
Running(k) == sweep[k].pc \notin {"idle", "done"}
FreeSweep(k) ==
    /\ ~Running(k)
    /\ \A j \in Slots : j < k => Running(j)
    /\ started < MaxRequests
Candidate(k) == sweep[k].cands[sweep[k].pos]

\* The orders a query may return the rows of S in.
Orders(S) ==
    {q \in [1..Cardinality(S) -> S] : \A i, j \in 1..Cardinality(S) : q[i] = q[j] => i = j}

\* The loop moves to the next row, or the sweep ends.
Advance(k, first) ==
    sweep' = [sweep EXCEPT ![k] =
                IF sweep[k].pos < Len(sweep[k].cands)
                  THEN [@ EXCEPT !.pos = @ + 1, !.pc = first, !.win = "none"]
                  ELSE [@ EXCEPT !.pc = "done", !.win = "none"]]
SweepGoto(k, pc) == sweep' = [sweep EXCEPT ![k].pc = pc]

HasLedgerRow(c, kind) == BagIn([client |-> c, type |-> kind], ledger)
HasDepositRevenue(c) == \E r \in BagToSet(revenue) : r.client = c /\ r.type = "deposit"

\* Variant: the query does not look at signed_at.
DepositReminderRows_NoGrace ==
    {p \in proposals :
       /\ p.status = "signed"
       /\ clients[p.client].email
       /\ ~HasDepositRevenue(p.client)
       /\ ~HasLedgerRow(p.client, "deposit-reminder")}

\* Variant: the query does not look at the ledger.
DepositReminderRows_NoLedger ==
    {p \in proposals :
       /\ p.status = "signed"
       /\ p.signedAt < now - 24
       /\ clients[p.client].email
       /\ ~HasDepositRevenue(p.client)}

\* The rows of checkDepositReminders' query: signed proposals older than 24
\* hours of clients with an email address, no deposit revenue and no
\* deposit-reminder ledger row.
GraceHours == 24
DepositReminderRows ==
    {p \in proposals :
       /\ p.status = "signed"
       /\ p.signedAt < now - GraceHours
       /\ clients[p.client].email
       /\ ~HasDepositRevenue(p.client)
       /\ ~HasLedgerRow(p.client, "deposit-reminder")}

\* checkDepositReminders, run by the hourly timer, 30 s after startup, and by
\* POST /api/test/check-deposit-reminders: the query; no rows, nothing to do.
checkDepositReminders(k, ok) ==
    /\ FreeSweep(k)
    /\ CanFail(ok)
    /\ faults' = Count(ok)
    /\ started' = started + 1
    /\ IF ok /\ DepositReminderRows # {}
         THEN \E q \in Orders(DepositReminderRows) :
                sweep' = [sweep EXCEPT ![k] =
                            [kind |-> "deposit", cands |-> [i \in DOMAIN q |-> q[i].client],
                             pos |-> 1, pc |-> "send", win |-> "deposit-reminder"]]
         ELSE sweep' = [sweep EXCEPT ![k] = NoSweep]
    /\ UNCHANGED <<storeVars, outbox, req, pay, draft, now>>

\* Variant: a failed send writes the ledger row all the same.
DepositSendClient_GiveUp(k, token, ok) ==
    /\ sweep[k].kind = "deposit" /\ sweep[k].pc = "send"
    /\ CanFail(token /\ ok)
    /\ faults' = Count(token /\ ok)
    /\ IF token /\ ok
         THEN /\ outbox' = Add(outbox, [to |-> "client", client |-> Candidate(k),
                                        kind |-> "deposit-reminder", ref |-> "sweep"])
              /\ SweepGoto(k, "owner")
              /\ UNCHANGED ledger
         ELSE /\ UNCHANGED outbox
              /\ ledger' = Add(ledger, [client |-> Candidate(k), type |-> "deposit-reminder"])
              /\ Advance(k, "send")
    /\ UNCHANGED <<invoices, nextInvoiceId, clients, portal, calendar, revenue, proposals,
                   settings, req, pay, draft, now, started>>

\* sendDepositReminder: the token is read and the client's reminder is sent.
\* `token` is whether the settings table holds a gmail_refresh_token; a sweep
\* counts a missing token among the failures.  Any failure returns false and
\* the loop goes on.
DepositSendClient(k, token, ok) ==
    /\ sweep[k].kind = "deposit" /\ sweep[k].pc = "send"
    /\ CanFail(token /\ ok)
    /\ faults' = Count(token /\ ok)
    /\ IF token /\ ok
         THEN /\ outbox' = Add(outbox, [to |-> "client", client |-> Candidate(k),
                                        kind |-> "deposit-reminder", ref |-> "sweep"])
              /\ SweepGoto(k, "owner")
         ELSE /\ UNCHANGED outbox
              /\ Advance(k, "send")
    /\ UNCHANGED <<storeVars, req, pay, draft, now, started>>

\* ... the owner is told that the reminder went out.
DepositNotifyOwner(k, ok) ==
    /\ sweep[k].kind = "deposit" /\ sweep[k].pc = "owner"
    /\ CanFail(ok)
    /\ faults' = Count(ok)
    /\ IF ok
         THEN /\ outbox' = Add(outbox, [to |-> "owner", client |-> Candidate(k),
                                        kind |-> "deposit-reminder-sent", ref |-> "sweep"])
              /\ SweepGoto(k, "record")
         ELSE /\ UNCHANGED outbox
              /\ Advance(k, "send")
    /\ UNCHANGED <<storeVars, req, pay, draft, now, started>>

\* ... INSERT INTO reminders_sent (client_id, type) VALUES ($1, 'deposit-reminder')
DepositRecord(k, ok) ==
    /\ sweep[k].kind = "deposit" /\ sweep[k].pc = "record"
    /\ CanFail(ok)
    /\ faults' = Count(ok)
    /\ ledger' = IF ok THEN Add(ledger, [client |-> Candidate(k), type |-> "deposit-reminder"])
                 ELSE ledger
    /\ Advance(k, "send")
    /\ UNCHANGED <<invoices, nextInvoiceId, clients, portal, calendar, revenue, proposals, settings,
                   outbox, req, pay, draft, now, started>>

\* The instant of a client's event_date, and Math.floor of the days to it.
EventInstant(c) == LocalMidnight(clients[c].eventDate, ServerZoneOffset)
daysUntil(c) == (EventInstant(c) - now) \div 24

\* Variant: the query does not look at final_paid.
UpcomingClients_AnyBalance ==
    {c \in Clients :
       /\ clients[c].status = "booked"
       /\ clients[c].eventDate # NoDate
       /\ EventInstant(c) > now}

\* The rows of checkUpcomingEvents' query: booked clients with a future event
\* date whose final balance is not paid.
UpcomingClients ==
    {c \in Clients :
       /\ clients[c].status = "booked"
       /\ clients[c].eventDate # NoDate
       /\ EventInstant(c) > now
       /\ ~portal[c].finalPaid}

\* ORDER BY c.event_date ASC
ByEventDate(q) == \A i, j \in DOMAIN q : i < j => clients[q[i]].eventDate <= clients[q[j]].eventDate

\* Variant: the one-month window opens a day early.
WindowOf_Wide(d) ==
    IF d <= 31 /\ d > 14 THEN "one_month"
    ELSE IF d <= 14 /\ d > 0 THEN "two_week"
    ELSE "none"

\* Variant: the two-week window opens a day early.
WindowOf_Early(d) ==
    IF d <= 30 /\ d > 15 THEN "one_month"
    ELSE IF d <= 15 /\ d > 0 THEN "two_week"
    ELSE "none"

\* The reminder kind of the window a client is in.
WindowOf(d) ==
    IF d <= 30 /\ d > 14 THEN "one_month"
    ELSE IF d <= 14 /\ d > 0 THEN "two_week"
    ELSE "none"

\* checkUpcomingEvents, run by the daily job and by POST /api/test/check-reminders:
\* without a token it returns at once; else the query.
checkUpcomingEvents(k, token, ok) ==
    /\ FreeSweep(k)
    /\ CanFail(token /\ ok)
    /\ faults' = Count(token /\ ok)
    /\ started' = started + 1
    /\ IF token /\ ok /\ UpcomingClients # {}
         THEN \E q \in Orders(UpcomingClients) :
                /\ ByEventDate(q)
                /\ sweep' = [sweep EXCEPT ![k] =
                               [kind |-> "events", cands |-> q, pos |-> 1, pc |-> "check",
                                win |-> "none"]]
         ELSE sweep' = [sweep EXCEPT ![k] = NoSweep]
    /\ UNCHANGED <<storeVars, outbox, req, pay, draft, now>>

\* The loop body's head: the window of the client and alreadySent(kind).  A
\* failing SELECT is outside the inner try and ends the whole sweep.
EventCheck(k, ok) ==
    /\ sweep[k].kind = "events" /\ sweep[k].pc = "check"
    /\ CanFail(ok)
    /\ faults' = Count(ok)
    /\ LET c == Candidate(k)
           kind == WindowOf(daysUntil(c))
       IN  IF kind = "none"
             THEN ok /\ Advance(k, "check")
             ELSE IF ~ok
                    THEN sweep' = [sweep EXCEPT ![k].pc = "done"]
                    ELSE IF HasLedgerRow(c, kind)
                           THEN Advance(k, "check")
                           ELSE sweep' = [sweep EXCEPT ![k].win = kind,
                                            ![k].pc = IF kind = "two_week" THEN "invoice"
                                                      ELSE "send"]
    /\ UNCHANGED <<storeVars, outbox, req, pay, draft, now, started>>

\* The balance the two-week reminder bills: (proposalTotal - tastingCredit)
\* less the deposit, from the client's paid deposit invoice; 0 without one.
ProposalTotal == 100000
BalanceAmount(c) ==
    IF \E r \in invoices : r.client = c /\ r.type = "deposit" /\ r.status = "paid"
      THEN LET r == CHOOSE r \in invoices :
                      r.client = c /\ r.type = "deposit" /\ r.status = "paid"
           IN  ProposalTotal - r.amount
      ELSE 0

\* Two-week window: INSERT INTO invoices ('FB-<year>-<last 4 digits of the
\* clock>', ..., 'final', 'sent', ...) ON CONFLICT DO NOTHING.
FinalNumbers == {"FB-2026-0001", "FB-2026-0002"}
EventInvoice(k, n, ok) ==
    /\ sweep[k].kind = "events" /\ sweep[k].pc = "invoice"
    /\ CanFail(ok)
    /\ faults' = Count(ok)
    /\ IF ok
         THEN /\ invoices' = IF InsertAccepted(n)
                               THEN InsertInvoice(n, "final", BalanceAmount(Candidate(k)),
                                                  "sent", Candidate(k), NoMethod)
                               ELSE invoices
              /\ nextInvoiceId' = nextInvoiceId + 1
              /\ SweepGoto(k, "send")
         ELSE /\ UNCHANGED <<invoices, nextInvoiceId>>
              /\ Advance(k, "check")
    /\ UNCHANGED <<clients, portal, calendar, revenue, ledger, proposals, settings,
                   outbox, req, pay, draft, now, started>>

\* Variant: the ledger row is written whether or not the send succeeded.
EventSend_RecordAnyway(k, ok) ==
    /\ sweep[k].kind = "events" /\ sweep[k].pc = "send"
    /\ CanFail(ok)
    /\ faults' = Count(ok)
    /\ outbox' = IF ok THEN Add(outbox, [to |-> "client", client |-> Candidate(k),
                                         kind |-> sweep[k].win, ref |-> "sweep"])
                 ELSE outbox
    /\ SweepGoto(k, "record")
    /\ UNCHANGED <<storeVars, req, pay, draft, now, started>>

\* The reminder of the window is sent.
EventSend(k, ok) ==
    /\ sweep[k].kind = "events" /\ sweep[k].pc = "send"
    /\ CanFail(ok)
    /\ faults' = Count(ok)
    /\ IF ok
         THEN /\ outbox' = Add(outbox, [to |-> "client", client |-> Candidate(k),
                                        kind |-> sweep[k].win, ref |-> "sweep"])
              /\ SweepGoto(k, "record")
         ELSE /\ UNCHANGED outbox
              /\ Advance(k, "check")
    /\ UNCHANGED <<storeVars, req, pay, draft, now, started>>

\* INSERT INTO reminders_sent (client_id, type) VALUES ($1, <kind>), then the
\* communications log.
EventRecord(k, ok) ==
    /\ sweep[k].kind = "events" /\ sweep[k].pc = "record"
    /\ CanFail(ok)
    /\ faults' = Count(ok)
    /\ ledger' = IF ok THEN Add(ledger, [client |-> Candidate(k), type |-> sweep[k].win])
                 ELSE ledger
    /\ Advance(k, "check")
    /\ UNCHANGED <<invoices, nextInvoiceId, clients, portal, calendar, revenue, proposals, settings,
                   outbox, req, pay, draft, now, started>>

\* Time passes: to the next of the instants the sweeps are observed at.
Instants == <<737, 1001, 1121, 1145, 1457, 1481>>
Tick ==
    /\ \E i \in 1..(Len(Instants) - 1) : now = Instants[i] /\ now' = Instants[i + 1]
    /\ UNCHANGED <<storeVars, outbox, req, sweep, pay, draft, faults, started>>

\* ------------------------------------------------------------ initial states
EventDays == {62}
InitialAmounts == {0, 10000}
Payments == [invoiceId : InvoiceNumbers \cup {NoInvoice},
             invoiceType : {"tasting", "deposit", "final", NoType},
             clientId : {NoClient, 1}, hasEmail : BOOLEAN, amount : AmountsCents]

\* The payment's invoice is unknown to the store, or there with any status
\* (amount 0: created by the browser before the amount was set); the payment's
\* client is an inquiry or booked, with or without an event date.
InitPay ==
    /\ pay \in Payments
    /\ \/ invoices = {} /\ nextInvoiceId = 1
       \/ /\ pay.invoiceId # NoInvoice
          /\ \E st \in InvoiceStatuses, a \in InitialAmounts :
               /\ a = 0 => st = "sent"
               /\ invoices = {[id |-> 1, number |-> pay.invoiceId,
                               type |-> TypeOr(pay.invoiceType, "other"),
                               amount |-> a, status |-> st, client |-> pay.clientId,
                               method |-> NoMethod]}
          /\ nextInvoiceId = 2
    /\ clients \in [Clients -> [status : ClientStatuses, eventDate : EventDays \cup {NoDate},
                                 email : {TRUE}]]
    /\ \A c \in Clients :
         c # pay.clientId => clients[c] = [status |-> "inquiry", eventDate |-> NoDate,
                                           email |-> TRUE]
    /\ portal = [c \in Clients |-> NoPortalRow]
    /\ calendar = EmptyBag
    /\ revenue = EmptyBag
    /\ ledger = EmptyBag
    /\ proposals = {}
    /\ outbox = EmptyBag
    /\ req = [s \in Slots |-> Idle("")]
    /\ sweep = [k \in Slots |-> NoSweep]
    /\ now = 0
    /\ faults = 0
    /\ started = 0
    /\ settings = NoSettings
    /\ draft = NoDraft

NextPay ==
    \/ \E s \in Slots, secret \in BOOLEAN, etype \in EventTypes, sigOk \in BOOLEAN :
          Webhook(s, secret, etype, sigOk)
    \/ \E s \in Slots, ok \in BOOLEAN : HpcInvoiceUpdate(s, ok)
    \/ \E s \in Slots, ok \in BOOLEAN : HpcInvoiceInsert(s, ok)
    \/ \E s \in Slots, f \in 0..11 : HpcClientStatus(s, f)
    \/ \E s \in Slots, ok \in BOOLEAN : HpcRevenue(s, ok)
    \/ \E s \in Slots, token \in BOOLEAN, ok \in BOOLEAN : HpcOwnerMail(s, token, ok)
    \/ \E s \in Slots, token \in BOOLEAN, pdf \in BOOLEAN, ok \in BOOLEAN :
          HpcClientMail(s, token, pdf, ok)
    \/ \E s \in Slots, hasAmount \in BOOLEAN : OfflineClaimed(s, hasAmount)
    \/ \E s \in Slots, ok \in BOOLEAN : ClaimInvoiceUpdate(s, ok)
    \/ \E s \in Slots, ok \in BOOLEAN : ClaimInvoiceInsert(s, ok)
    \/ \E s \in Slots, token \in BOOLEAN, ok \in BOOLEAN : ClaimNotify(s, token, ok)
    \/ \E s \in Slots, hasAmount \in BOOLEAN : OfflineVerify(s, hasAmount)
    \/ \E s \in Slots, ok \in BOOLEAN : VerifyInvoice(s, ok)
    \/ \E s \in Slots, f \in 0..11 : VerifyClientStatus(s, f)
    \/ \E s \in Slots, ok \in BOOLEAN : VerifyRevenue(s, ok)
    \/ \E s \in Slots, token \in BOOLEAN, pdf \in BOOLEAN, ok \in BOOLEAN :
          VerifyClientMail(s, token, pdf, ok)
    \/ \E id \in 1..2, status \in InvoiceStatuses : UpdateInvoice(id, status)

SpecPay == InitPay /\ [][NextPay]_vars

\* A handler waiting on the store or the mail transport is resumed when the
\* call settles: the event loop leaves no request in flight for ever.
HandlerResumes == NextPay /\ \E s \in Slots : req[s].pc # "idle" /\ req'[s] # req[s]
SpecPayLive == InitPay /\ [][NextPay]_vars /\ WF_vars(HandlerResumes)

\* Reminder sweeps over a store in which no payment is being reported.
\* Client 1 has signed a proposal long ago (a second one in one case); what
\* varies is whether the deposit is paid, the client booked, the final balance
\* paid, and which reminders the ledger already holds.  Client 2 has no
\* proposal, one signed 17 hours before the first instant, or is booked with
\* an unsigned one.
Signed(id, c, at) == [id |-> id, client |-> c, status |-> "signed", signedAt |-> at]
DepositPaidBy(c) ==
    [client |-> c, invoice |-> 0, amount |-> 25000, type |-> "deposit", ref |-> "stripe"]
FirstClient ==
    {[status |-> "inquiry", proposals |-> {Signed(1, 1, 0)}, paid |-> FALSE,
      finalPaid |-> FALSE, kinds |-> {}],
     [status |-> "inquiry", proposals |-> {Signed(1, 1, 0), Signed(3, 1, 0)}, paid |-> FALSE,
      finalPaid |-> FALSE, kinds |-> {}],
     [status |-> "inquiry", proposals |-> {Signed(1, 1, 0)}, paid |-> FALSE,
      finalPaid |-> FALSE, kinds |-> {"deposit-reminder"}],
     [status |-> "booked", proposals |-> {Signed(1, 1, 0)}, paid |-> FALSE,
      finalPaid |-> FALSE, kinds |-> {}],
     [status |-> "booked", proposals |-> {Signed(1, 1, 0)}, paid |-> TRUE,
      finalPaid |-> FALSE, kinds |-> {}],
     [status |-> "booked", proposals |-> {Signed(1, 1, 0)}, paid |-> TRUE,
      finalPaid |-> FALSE, kinds |-> {"one_month"}],
     [status |-> "booked", proposals |-> {Signed(1, 1, 0)}, paid |-> TRUE,
      finalPaid |-> FALSE, kinds |-> {"two_week"}],
     [status |-> "booked", proposals |-> {Signed(1, 1, 0)}, paid |-> TRUE,
      finalPaid |-> TRUE, kinds |-> {}]}
SecondClient ==
    {[status |-> "inquiry", eventDate |-> NoDate, proposals |-> {}],
     [status |-> "inquiry", eventDate |-> NoDate, proposals |-> {Signed(2, 2, 720)}],
     [status |-> "booked", eventDate |-> 62,
      proposals |-> {[id |-> 2, client |-> 2, status |-> "sent", signedAt |-> 0]}]}

InitRemWith(payment) ==
    /\ pay = payment
    /\ \E a \in FirstClient, b \in SecondClient :
         /\ clients = [c \in Clients |->
                         IF c = 1 THEN [status |-> a.status, eventDate |-> 62, email |-> TRUE]
                         ELSE [status |-> b.status, eventDate |-> b.eventDate, email |-> TRUE]]
         /\ proposals = a.proposals \cup b.proposals
         /\ revenue = IF a.paid THEN SetToBag({DepositPaidBy(1)}) ELSE EmptyBag
         /\ invoices = IF a.paid
                         THEN {[id |-> 1, number |-> "DI-2026-1000", type |-> "deposit",
                                amount |-> 25000, status |-> "paid", client |-> 1,
                                method |-> "card"]}
                         ELSE {}
         /\ nextInvoiceId = IF a.paid THEN 2 ELSE 1
         /\ portal = [c \in Clients |->
                        IF c = 1 /\ a.finalPaid
                          THEN [NoPortalRow EXCEPT !.exists = TRUE, !.finalPaid = TRUE]
                          ELSE NoPortalRow]
         /\ ledger = SetToBag({[client |-> 1, type |-> kind] : kind \in a.kinds})
    /\ calendar = EmptyBag
    /\ outbox = EmptyBag
    /\ req = [s \in Slots |-> Idle("")]
    /\ sweep = [k \in Slots |-> NoSweep]
    /\ now = Instants[1]
    /\ faults = 0
    /\ started = 0
    /\ settings = NoSettings
    /\ draft = NoDraft

\* No payment is reported while the sweeps run.
InitRem ==
    InitRemWith([invoiceId |-> NoInvoice, invoiceType |-> NoType, clientId |-> NoClient,
                 hasEmail |-> FALSE, amount |-> 25000])

NextRem ==
    \/ \E k \in Slots, ok \in BOOLEAN : checkDepositReminders(k, ok)
    \/ \E k \in Slots, token \in BOOLEAN, ok \in BOOLEAN : DepositSendClient(k, token, ok)
    \/ \E k \in Slots, ok \in BOOLEAN : DepositNotifyOwner(k, ok)
    \/ \E k \in Slots, ok \in BOOLEAN : DepositRecord(k, ok)
    \/ \E k \in Slots, token \in BOOLEAN, ok \in BOOLEAN : checkUpcomingEvents(k, token, ok)
    \/ \E k \in Slots, ok \in BOOLEAN : EventCheck(k, ok)
    \/ \E k \in Slots, n \in FinalNumbers, ok \in BOOLEAN : EventInvoice(k, n, ok)
    \/ \E k \in Slots, ok \in BOOLEAN : EventSend(k, ok)
    \/ \E k \in Slots, ok \in BOOLEAN : EventRecord(k, ok)
    \/ Tick

SpecRem == InitRem /\ [][NextRem]_vars

\* The sweeps together with the processor's webhook: client 1 pays the final
\* balance, on the invoice the two-week sweep may have created for it.
FinalPayment ==
    [invoiceId |-> "FB-2026-0001", invoiceType |-> "final", clientId |-> 1,
     hasEmail |-> FALSE, amount |-> 75000]
InitFinal == InitRemWith(FinalPayment)
NextFinal ==
    \/ NextRem
    \/ \E s \in Slots, secret \in BOOLEAN, etype \in EventTypes, sigOk \in BOOLEAN :
          Webhook(s, secret, etype, sigOk)
    \/ \E s \in Slots, ok \in BOOLEAN : HpcInvoiceUpdate(s, ok)
    \/ \E s \in Slots, ok \in BOOLEAN : HpcInvoiceInsert(s, ok)
    \/ \E s \in Slots, f \in 0..11 : HpcClientStatus(s, f)
    \/ \E s \in Slots, ok \in BOOLEAN : HpcRevenue(s, ok)
    \/ \E s \in Slots, token \in BOOLEAN, ok \in BOOLEAN : HpcOwnerMail(s, token, ok)
    \/ \E s \in Slots, token \in BOOLEAN, pdf \in BOOLEAN, ok \in BOOLEAN :
          HpcClientMail(s, token, pdf, ok)
SpecFinal == InitFinal /\ [][NextFinal]_vars

\* The sweeps together with the processor's webhook: client 1 pays the
\* deposit, on the invoice of id 1.
DepositPayment ==
    [invoiceId |-> "1", invoiceType |-> "deposit", clientId |-> 1,
     hasEmail |-> FALSE, amount |-> 25000]
InitDeposit == InitRemWith(DepositPayment)
SpecDeposit == InitDeposit /\ [][NextFinal]_vars

\* ------------------------------------------------------------ the two timers
\* setInterval(checkDepositReminders, 1 h) and cron '0 9 * * *' for
\* checkUpcomingEvents fire for as long as the server runs, any number of
\* times.  A sweep lasts seconds and the firings are an hour apart: here a
\* timer fires when no sweep is running (SpecRem has the overlapping sweeps).
TimerSlot(k) == k = 1 /\ \A j \in Slots : ~Running(j)

HourlyDepositTimer(k, ok) ==
    /\ TimerSlot(k)
    /\ CanFail(ok)
    /\ faults' = Count(ok)
    /\ IF ok /\ DepositReminderRows # {}
         THEN \E q \in Orders(DepositReminderRows) :
                sweep' = [sweep EXCEPT ![k] =
                            [kind |-> "deposit", cands |-> [i \in DOMAIN q |-> q[i].client],
                             pos |-> 1, pc |-> "send", win |-> "deposit-reminder"]]
         ELSE sweep' = [sweep EXCEPT ![k] = NoSweep]
    /\ UNCHANGED <<storeVars, outbox, req, pay, draft, now, started>>

DailyEventsCron(k, token, ok) ==
    /\ TimerSlot(k)
    /\ CanFail(token /\ ok)
    /\ faults' = Count(token /\ ok)
    /\ IF token /\ ok /\ UpcomingClients # {}
         THEN \E q \in Orders(UpcomingClients) :
                /\ ByEventDate(q)
                /\ sweep' = [sweep EXCEPT ![k] =
                               [kind |-> "events", cands |-> q, pos |-> 1, pc |-> "check",
                                win |-> "none"]]
         ELSE sweep' = [sweep EXCEPT ![k] = NoSweep]
    /\ UNCHANGED <<storeVars, outbox, req, pay, draft, now, started>>

\* The statements of the sweep in slot k.
SweepStep(k) ==
    \/ \E token \in BOOLEAN, ok \in BOOLEAN : DepositSendClient(k, token, ok)
    \/ \E ok \in BOOLEAN : DepositNotifyOwner(k, ok)
    \/ \E ok \in BOOLEAN : DepositRecord(k, ok)
    \/ \E ok \in BOOLEAN : EventCheck(k, ok)
    \/ \E n \in FinalNumbers, ok \in BOOLEAN : EventInvoice(k, n, ok)
    \/ \E ok \in BOOLEAN : EventSend(k, ok)
    \/ \E ok \in BOOLEAN : EventRecord(k, ok)

NextTimers ==
    \/ \E k \in Slots, ok \in BOOLEAN : HourlyDepositTimer(k, ok)
    \/ \E k \in Slots, token \in BOOLEAN, ok \in BOOLEAN : DailyEventsCron(k, token, ok)
    \/ \E k \in Slots : SweepStep(k)
    \/ Tick

\* Each timer fires again and again, whatever the other one does (strong
\* fairness: neither waits for ever behind the other's sweeps), and a sweep
\* that waits on the store or the transport is resumed; the transport and the
\* store fail MaxFaults times at most.
SpecTimers ==
    /\ InitRem
    /\ [][NextTimers]_vars
    /\ SF_vars(\E k \in Slots, ok \in BOOLEAN : HourlyDepositTimer(k, ok))
    /\ SF_vars(\E k \in Slots, token \in BOOLEAN, ok \in BOOLEAN : DailyEventsCron(k, token, ok))
    /\ \A k \in Slots : WF_vars(SweepStep(k))

\* ------------------------------------------- completions and the client's row
\* Completions (webhook and verification) for a client anywhere in the
\* pipeline, whose portal_data row may already hold paid flags.  clients.status
\* is free text: POST and PUT /api/clients store the status they are given.
PipelineStatuses == {"inquiry", "booked", "delivered", "archived"}
PortalRows ==
    {r \in [exists : BOOLEAN, tastingPaid : BOOLEAN, depositPaid : BOOLEAN,
             finalPaid : BOOLEAN] :
       (r.tastingPaid \/ r.depositPaid \/ r.finalPaid) => r.exists}
InitStatus ==
    /\ pay \in [invoiceId : {"1"}, invoiceType : InvoiceTypes \cup {NoType},
                 clientId : {NoClient, 1}, hasEmail : {FALSE}, amount : AmountsCents]
    /\ invoices = {}
    /\ nextInvoiceId = 1
    /\ \E st \in PipelineStatuses, d \in EventDays \cup {NoDate}, row \in PortalRows :
         /\ clients = [c \in Clients |->
                         IF c = 1 THEN [status |-> st, eventDate |-> d, email |-> TRUE]
                         ELSE [status |-> "inquiry", eventDate |-> NoDate, email |-> TRUE]]
         /\ portal = [c \in Clients |-> IF c = 1 THEN row ELSE NoPortalRow]
    /\ calendar = EmptyBag
    /\ revenue = EmptyBag
    /\ ledger = EmptyBag
    /\ proposals = {}
    /\ outbox = EmptyBag
    /\ req = [s \in Slots |-> Idle("")]
    /\ sweep = [k \in Slots |-> NoSweep]
    /\ now = 0
    /\ faults = 0
    /\ started = 0
    /\ settings = NoSettings
    /\ draft = NoDraft

NextStatus ==
    \/ \E s \in Slots, secret \in BOOLEAN, etype \in EventTypes, sigOk \in BOOLEAN :
          Webhook(s, secret, etype, sigOk)
    \/ \E s \in Slots, ok \in BOOLEAN : HpcInvoiceUpdate(s, ok)
    \/ \E s \in Slots, ok \in BOOLEAN : HpcInvoiceInsert(s, ok)
    \/ \E s \in Slots, f \in 0..11 : HpcClientStatus(s, f)
    \/ \E s \in Slots, ok \in BOOLEAN : HpcRevenue(s, ok)
    \/ \E s \in Slots, token \in BOOLEAN, ok \in BOOLEAN : HpcOwnerMail(s, token, ok)
    \/ \E s \in Slots, token \in BOOLEAN, pdf \in BOOLEAN, ok \in BOOLEAN :
          HpcClientMail(s, token, pdf, ok)
    \/ \E s \in Slots, hasAmount \in BOOLEAN : OfflineVerify(s, hasAmount)
    \/ \E s \in Slots, ok \in BOOLEAN : VerifyInvoice(s, ok)
    \/ \E s \in Slots, f \in 0..11 : VerifyClientStatus(s, f)
    \/ \E s \in Slots, ok \in BOOLEAN : VerifyRevenue(s, ok)
    \/ \E s \in Slots, token \in BOOLEAN, pdf \in BOOLEAN, ok \in BOOLEAN :
          VerifyClientMail(s, token, pdf, ok)
SpecStatus == InitStatus /\ [][NextStatus]_vars

\* ------------------------------------------------ revenue and invoice deletion
\* revenue.invoice_id REFERENCES invoices(id) ON DELETE SET NULL: the revenue
\* rows of the deleted invoices lose their reference (0 stands for NULL).
SetInvoiceNull(ids) ==
    LET Nulled(e) == IF e.invoice \in ids THEN [e EXCEPT !.invoice = 0] ELSE e
        Sources(t) == {e \in BagToSet(revenue) : Nulled(e) = t}
        RECURSIVE Sum(_)
        Sum(S) == IF S = {} THEN 0
                  ELSE LET e == CHOOSE x \in S : TRUE
                       IN  CopiesIn(e, revenue) + Sum(S \ {e})
    IN  [t \in {Nulled(e) : e \in BagToSet(revenue)} |-> Sum(Sources(t))]

\* DELETE /api/invoices/:id: 404 when there is no such row.
DeleteInvoice(s, id, ok) ==
    /\ Free(s)
    /\ CanFail(ok)
    /\ faults' = Count(ok)
    /\ started' = started + 1
    /\ IF ~ok
         THEN Respond(s, "500 Failed to delete invoice") /\ UNCHANGED <<invoices, revenue>>
         ELSE IF \A r \in invoices : r.id # id
                THEN Respond(s, "404 Invoice not found") /\ UNCHANGED <<invoices, revenue>>
                ELSE /\ invoices' = {r \in invoices : r.id # id}
                     /\ revenue' = SetInvoiceNull({id})
                     /\ Respond(s, "200 Invoice deleted")
    /\ UNCHANGED <<nextInvoiceId, clients, portal, calendar, ledger, proposals, settings,
                   outbox, sweep, pay, draft, now>>

\* DELETE /api/invoices: every row.
DeleteAllInvoices(s, ok) ==
    /\ Free(s)
    /\ CanFail(ok)
    /\ faults' = Count(ok)
    /\ started' = started + 1
    /\ IF ok
         THEN /\ invoices' = {}
              /\ revenue' = SetInvoiceNull({r.id : r \in invoices})
              /\ Respond(s, "200 Deleted invoices")
         ELSE Respond(s, "500 Failed to delete invoices") /\ UNCHANGED <<invoices, revenue>>
    /\ UNCHANGED <<nextInvoiceId, clients, portal, calendar, ledger, proposals, settings,
                   outbox, sweep, pay, draft, now>>

\* POST /api/revenue: the body's row is inserted; invoice_id must be NULL or
\* the id of an invoice.
CreateRevenue(s, c, inv, type, ok) ==
    /\ Free(s)
    /\ CanFail(ok)
    /\ faults' = Count(ok)
    /\ started' = started + 1
    /\ IF ok /\ (inv = 0 \/ \E r \in invoices : r.id = inv)
         THEN /\ revenue' = Add(revenue, [client |-> c, invoice |-> inv, amount |-> pay.amount,
                                          type |-> type, ref |-> "manual"])
              /\ Respond(s, "201 Created")
         ELSE Respond(s, "500 Failed to create revenue") /\ UNCHANGED revenue
    /\ UNCHANGED <<invoices, nextInvoiceId, clients, portal, calendar, ledger, proposals,
                   settings, outbox, sweep, pay, draft, now>>

\* The processor's webhook together with the revenue and invoice endpoints.
NextCrud ==
    \/ \E s \in Slots, secret \in BOOLEAN, etype \in EventTypes, sigOk \in BOOLEAN :
          Webhook(s, secret, etype, sigOk)
    \/ \E s \in Slots, ok \in BOOLEAN : HpcInvoiceUpdate(s, ok)
    \/ \E s \in Slots, ok \in BOOLEAN : HpcInvoiceInsert(s, ok)
    \/ \E s \in Slots, f \in 0..11 : HpcClientStatus(s, f)
    \/ \E s \in Slots, ok \in BOOLEAN : HpcRevenue(s, ok)
    \/ \E s \in Slots, token \in BOOLEAN, ok \in BOOLEAN : HpcOwnerMail(s, token, ok)
    \/ \E s \in Slots, token \in BOOLEAN, pdf \in BOOLEAN, ok \in BOOLEAN :
          HpcClientMail(s, token, pdf, ok)
    \/ \E s \in Slots, id \in 1..2, ok \in BOOLEAN : DeleteInvoice(s, id, ok)
    \/ \E s \in Slots, ok \in BOOLEAN : DeleteAllInvoices(s, ok)
    \/ \E s \in Slots, c \in Clients, inv \in 0..2, type \in {"deposit", "other"},
          ok \in BOOLEAN : CreateRevenue(s, c, inv, type, ok)
SpecCrud == InitPay /\ [][NextCrud]_vars

\* ------------------------------------------ POST /api/test/reset-reminders
\* Variant: the DELETE has no WHERE clause.
ResetReminders_All(s, c, testKey, ok) ==
    /\ Free(s)
    /\ CanFail(ok)
    /\ ~testKey => ok
    /\ faults' = Count(ok)
    /\ started' = started + 1
    /\ ledger' = IF testKey /\ ok THEN EmptyBag ELSE ledger
    /\ req' = [req EXCEPT ![s] =
                 IF ~testKey THEN Idle("403 Forbidden")
                 ELSE IF ~ok THEN Idle("500 error")
                 ELSE Idle("200 Reminders reset")]
    /\ UNCHANGED <<invoices, nextInvoiceId, clients, portal, calendar, revenue, proposals,
                   settings, outbox, sweep, pay, draft, now>>

\* `testKey` is whether STRIPE_PUBLISHABLE_KEY starts with pk_test_; `c` is the
\* body's clientId, NoClient when it has none: DELETE FROM reminders_sent
\* WHERE client_id = c, or the whole table.
ResetReminders(s, c, testKey, ok) ==
    /\ Free(s)
    /\ CanFail(ok)
    /\ ~testKey => ok
    /\ faults' = Count(ok)
    /\ started' = started + 1
    /\ ledger' = IF testKey /\ ok
                   THEN [e \in {x \in DOMAIN ledger : c # NoClient /\ x.client # c} |-> ledger[e]]
                   ELSE ledger
    /\ req' = [req EXCEPT ![s] =
                 IF ~testKey THEN Idle("403 Forbidden")
                 ELSE IF ~ok THEN Idle("500 error")
                 ELSE Idle("200 Reminders reset")]
    /\ UNCHANGED <<invoices, nextInvoiceId, clients, portal, calendar, revenue, proposals,
                   settings, outbox, sweep, pay, draft, now>>

\* The sweeps of a deployment with a test key, where the reset endpoint is open.
NextReset ==
    \/ NextRem
    \/ \E s \in Slots, c \in Clients \cup {NoClient}, testKey \in BOOLEAN, ok \in BOOLEAN :
          ResetReminders(s, c, testKey, ok)

SpecReset == InitRem /\ [][NextReset]_vars

\* ------------------------------------------ POST /api/test/deposit-reminder
\* The endpoint looks up one signed proposal of the body's client, deletes the
\* client's deposit-reminder ledger rows and calls sendDepositReminder for it:
\* the statements of sendDepositReminder then run in slot k as for a sweep
\* over that one client.  Without a test key the answer is 403.
TestDepositReminder(k, c, testKey, ok) ==
    /\ FreeSweep(k)
    /\ CanFail(ok)
    /\ ~testKey => ok
    /\ faults' = Count(ok)
    /\ started' = started + 1
    /\ IF testKey /\ ok /\ \E p \in proposals : p.client = c /\ p.status = "signed"
         THEN /\ ledger' = [e \in {x \in DOMAIN ledger :
                                     ~(x.client = c /\ x.type = "deposit-reminder")} |-> ledger[e]]
              /\ sweep' = [sweep EXCEPT ![k] =
                             [kind |-> "deposit", cands |-> <<c>>, pos |-> 1, pc |-> "send",
                              win |-> "deposit-reminder"]]
         ELSE /\ UNCHANGED ledger
              /\ sweep' = [sweep EXCEPT ![k] = NoSweep]
    /\ UNCHANGED <<invoices, nextInvoiceId, clients, portal, calendar, revenue, proposals,
                   settings, outbox, req, pay, draft, now>>

\* The sweeps, by timer or by POST /api/test/check-deposit-reminders and
\* POST /api/test/check-reminders, and the single-client trigger.
NextManual ==
    \/ NextRem
    \/ \E k \in Slots, c \in Clients, testKey \in BOOLEAN, ok \in BOOLEAN :
          TestDepositReminder(k, c, testKey, ok)

SpecManual == InitRem /\ [][NextManual]_vars

\* ---------------------------------------------------- PUT /api/clients/:id
\* The body's event_date: absent or '', a 'YYYY-MM-DD' text, or the ISO text
\* the API itself returns for a DATE column (the JSON of a Date at the
\* server's local midnight).  new Date(text).getTime(), in hours:
BodyForms == {"none", "date", "instant"}
BodyDays == {62, 69}
NoStatus == ""
BodyInstant(form, D) ==
    IF form = "date"
      THEN 24 * DateUTC(ISODate(D)[1], ISODate(D)[2] - 1, ISODate(D)[3])
      ELSE LocalMidnight(D, ServerZoneOffset)

\* The handler's SELECT event_date, status: isBooked and eventDateChanged are
\* computed from the old row and the body, before the UPDATE.
UpdateClient(s, c, form, D, status, ok) ==
    /\ Free(s)
    /\ CanFail(ok)
    /\ faults' = Count(ok)
    /\ started' = started + 1
    /\ req' = [req EXCEPT ![s] =
                 IF ~ok THEN Idle("500 Failed to update client")
                 ELSE [pc |-> "update", h |-> "put", resp |-> "", client |-> c,
                       date |-> IF form = "none" THEN NoDate ELSE DateOfText(ISODate(D)),
                       status |-> status,
                       oldDate |-> clients[c].eventDate,
                       isBooked |-> clients[c].status = "booked",
                       eventDateChanged |->
                          /\ form # "none"
                          /\ clients[c].eventDate # NoDate
                          /\ BodyInstant(form, D)
                                # LocalMidnight(clients[c].eventDate, ServerZoneOffset)]]
    /\ UNCHANGED <<storeVars, outbox, sweep, pay, draft, now>>

\* ... UPDATE clients SET status = COALESCE($4, status), event_date =
\* COALESCE($5, event_date), ...; the answer, unless the calendar is to be
\* recreated.
PutUpdate(s, ok) ==
    /\ At(s, "put", "update")
    /\ CanFail(ok)
    /\ faults' = Count(ok)
    /\ clients' = IF ok
                    THEN [clients EXCEPT
                            ![req[s].client].status = TypeOr(req[s].status, @),
                            ![req[s].client].eventDate =
                               IF req[s].date = NoDate THEN @ ELSE req[s].date]
                    ELSE clients
    /\ IF ~ok THEN Respond(s, "500 Failed to update client")
       ELSE IF req[s].eventDateChanged /\ req[s].isBooked THEN Goto(s, "calendar")
       ELSE Respond(s, "200 client")
    /\ UNCHANGED <<invoices, nextInvoiceId, portal, calendar, revenue, ledger, proposals,
                   settings, outbox, sweep, pay, draft, now, started>>

\* ... DELETE FROM calendar_events WHERE client_id = $1 AND event_type IN
\* ('prep', 'event'), then createEventPrepCalendarEvent.  Statement f fails
\* (f = 0: none): a failing DELETE (f = 1) is answered 500; a failure inside
\* createEventPrepCalendarEvent (its SELECT, f = 2, or one of its 8 INSERTs)
\* is caught there, and the answer is the updated row.
PutCalendar(s, f) ==
    /\ At(s, "put", "calendar")
    /\ CanFail(f = 0)
    /\ faults' = Count(f = 0)
    /\ LET c == req[s].client
           kept == [e \in {x \in DOMAIN calendar : x.client # c} |-> calendar[e]]
       IN  calendar' = IF f = 1 THEN calendar
                       ELSE IF f = 2 \/ clients[c].eventDate = NoDate THEN kept
                       ELSE AddFirst(kept, createEventPrepCalendarEvent(c),
                                     IF f = 0 THEN 8 ELSE f - 3)
    /\ IF f = 1 THEN Respond(s, "500 Failed to update client") ELSE Respond(s, "200 client")
    /\ UNCHANGED <<invoices, nextInvoiceId, clients, portal, revenue, ledger, proposals,
                   settings, outbox, sweep, pay, draft, now, started>>

\* Client 1 is an inquiry or booked, with or without an event date; a client
\* booked by a deposit completion while it had an event date has its 8
\* calendar entries.  Client 2 is an inquiry without a date.
InitUpdate ==
    /\ \E st \in ClientStatuses, D \in EventDays \cup {NoDate}, entries \in BOOLEAN :
         /\ entries => (st = "booked" /\ D # NoDate)
         /\ clients = [c \in Clients |->
                         IF c = 1 THEN [status |-> st, eventDate |-> D, email |-> TRUE]
                         ELSE [status |-> "inquiry", eventDate |-> NoDate, email |-> TRUE]]
         /\ calendar = IF entries
                         THEN AddFirst(EmptyBag,
                                       [j \in 1..8 |->
                                          IF j <= 7
                                            THEN [client |-> 1, type |-> "prep", date |-> D - (8 - j)]
                                            ELSE [client |-> 1, type |-> "event", date |-> D]], 8)
                         ELSE EmptyBag
    /\ pay = [invoiceId |-> NoInvoice, invoiceType |-> NoType, clientId |-> NoClient,
              hasEmail |-> FALSE, amount |-> 25000]
    /\ invoices = {}
    /\ nextInvoiceId = 1
    /\ portal = [c \in Clients |-> NoPortalRow]
    /\ revenue = EmptyBag
    /\ ledger = EmptyBag
    /\ proposals = {}
    /\ outbox = EmptyBag
    /\ req = [s \in Slots |-> Idle("")]
    /\ sweep = [k \in Slots |-> NoSweep]
    /\ now = 0
    /\ faults = 0
    /\ started = 0
    /\ settings = NoSettings
    /\ draft = NoDraft

NextUpdate ==
    \/ \E s \in Slots, c \in Clients, form \in BodyForms, D \in BodyDays,
          status \in {NoStatus, "inquiry", "booked"}, ok \in BOOLEAN :
          UpdateClient(s, c, form, D, status, ok)
    \/ \E s \in Slots, ok \in BOOLEAN : PutUpdate(s, ok)
    \/ \E s \in Slots, f \in 0..10 : PutCalendar(s, f)

SpecUpdate == InitUpdate /\ [][NextUpdate]_vars

\* ------------------------------------------------------ notification templates
\* Text is a sequence of lexemes: the braces, the dollar sign and the
\* ampersand stand alone, every other lexeme is a run of text without them.
TemplateKeys == {"tasting-confirmation", "booking-confirmation", "deposit-reminder"}
Tok(name) == <<"{", name, "}">>
DepositLink == <<"[DEPOSIT LINK]">>
Absent == <<>>

\* JavaScript `value || fallback` on text: an absent or empty value is falsy.
TextOr(value, fallback) == IF value = <<>> THEN fallback ELSE value

\* String.prototype.toLowerCase
LowerWord(w) == IF w = "Wedding" THEN "wedding" ELSE w
toLowerCase(text) == [i \in DOMAIN text |-> LowerWord(text[i])]

StartsWith(text, pat) == Len(text) >= Len(pat) /\ SubSeq(text, 1, Len(pat)) = pat
Drop(text, n) == SubSeq(text, n + 1, Len(text))

\* GetSubstitution: in a replacement text, `$$` stands for a dollar sign and
\* `$&` for the matched text; any other lexeme stands for itself.
RECURSIVE GetSubstitution(_, _)
GetSubstitution(matched, replacement) ==
    IF replacement = <<>> THEN <<>>
    ELSE IF StartsWith(replacement, <<"$", "$">>)
           THEN <<"$">> \o GetSubstitution(matched, Drop(replacement, 2))
    ELSE IF StartsWith(replacement, <<"$", "&">>)
           THEN matched \o GetSubstitution(matched, Drop(replacement, 2))
    ELSE <<Head(replacement)>> \o GetSubstitution(matched, Tail(replacement))

\* text.replace(/pat/g, replacement): every match, left to right, the
\* replaced text not scanned again.
RECURSIVE replace(_, _, _)
replace(text, pat, replacement) ==
    IF text = <<>> THEN <<>>
    ELSE IF StartsWith(text, pat)
           THEN GetSubstitution(pat, replacement) \o replace(Drop(text, Len(pat)), pat, replacement)
    ELSE <<Head(text)>> \o replace(Tail(text), pat, replacement)

\* A chain of .replace calls: `chain` is a sequence of <<pattern, value>>.
RECURSIVE replaceEach(_, _)
replaceEach(text, chain) ==
    IF chain = <<>> THEN text
    ELSE replaceEach(replace(text, chain[1][1], chain[1][2]), Tail(chain))

\* The built-in templates, shortened to the placeholders they carry.
defaultTemplate(key) ==
    CASE key = "tasting-confirmation" ->
           [subject |-> <<"Tasting Paid & Confirmed - ">> \o Tok("tastingDate"),
            body |-> <<"Dear ">> \o Tok("firstName") \o <<", thank you for your payment of ">>
                     \o Tok("amount") \o <<". Your tasting is confirmed!">>]
      [] key = "booking-confirmation" ->
           [subject |-> <<"You're Booked! - ">> \o Tok("eventDate"),
            body |-> <<"Hi ">> \o Tok("firstName") \o <<", thank you for trusting me with your ">>
                     \o Tok("eventType") \o <<".">>]
      [] OTHER ->
           [subject |-> <<"A Gentle Reminder About Your ">> \o Tok("eventType"),
            body |-> <<"Hi ">> \o Tok("firstName") \o <<", your ">> \o Tok("eventType")
                     \o <<" date of ">> \o Tok("eventDate") \o <<" deposit: ">> \o DepositLink]

\* { ...default, ...override }: the override's own enumerable properties over
\* the default's.  An object spreads its fields, a string its characters
\* under the keys "0", "1", ...
IndexKey(i) == IF i = 1 THEN "0" ELSE "1"
OwnProperties(override) ==
    IF override.type = "object" THEN override.fields
    ELSE [k \in {IndexKey(i) : i \in 1..Len(override.text)} |->
            IF k = "0" THEN override.text[1] ELSE override.text[2]]

\* Variant: an override is used only when it supplies every field.
Merge_AllOrNothing(default, override) ==
    IF DOMAIN OwnProperties(override) = DOMAIN default
      THEN OwnProperties(override) ELSE default

Merge(default, override) ==
    LET own == OwnProperties(override)
    IN  [k \in DOMAIN default \cup DOMAIN own |->
           IF k \in DOMAIN own THEN own[k] ELSE default[k]]

\* The override of a template key in the parsed 'email_templates' value, if
\* that value is an object holding a truthy one.
HasOverride(key) ==
    /\ settings.row
    /\ settings.parses
    /\ settings.object
    /\ key \in DOMAIN settings.custom
    /\ settings.custom[key].type # "null"

\* getTastingConfirmationTemplate, getBookingConfirmationTemplate,
\* getDepositReminderTemplate: the SELECT, JSON.parse of a text value, the
\* merge; any exception, and any missing piece, gives the default.
getTemplate(ok) ==
    /\ draft.stage = "new"
    /\ CanFail(ok)
    /\ faults' = Count(ok)
    /\ draft' = [draft EXCEPT
                   !.stage = "loaded",
                   !.template = IF ok /\ HasOverride(draft.key)
                                  THEN Merge(defaultTemplate(draft.key),
                                             settings.custom[draft.key])
                                  ELSE defaultTemplate(draft.key)]
    /\ UNCHANGED <<storeVars, outbox, req, sweep, pay, now, started>>

\* The values a notification is composed from, and the replacements its
\* builder makes in the body, in order.
bodyChain(key, v) ==
    CASE key = "tasting-confirmation" ->
           <<<<Tok("firstName"), v.firstName>>,
             <<Tok("amount"), v.amount>>,
             <<Tok("tastingDate"), TextOr(v.tastingDate, <<"To be confirmed">>)>>,
             <<Tok("tastingTime"), TextOr(v.tastingTime, <<>>)>>>>
      [] key = "booking-confirmation" ->
           <<<<Tok("firstName"), v.firstName>>,
             <<Tok("amount"), v.amount>>,
             <<Tok("eventType"), toLowerCase(TextOr(v.eventType, <<"celebration">>))>>,
             <<Tok("eventDate"), TextOr(v.eventDate, <<"your event">>)>>,
             <<Tok("venue"), TextOr(v.venue, <<>>)>>,
             <<Tok("balanceDueDate"),
               TextOr(v.balanceDueDate, <<"two weeks before your event">>)>>>>
      [] OTHER ->
           <<<<Tok("firstName"), v.firstName>>,
             <<Tok("eventType"), TextOr(v.eventType, <<"celebration">>)>>,
             <<Tok("eventDate"), TextOr(v.eventDate, <<"your upcoming event">>)>>,
             <<DepositLink, v.depositUrl>>>>

\* ... and in the subject.
subjectChain(key, v) ==
    CASE key = "tasting-confirmation" ->
           <<<<Tok("tastingDate"), TextOr(v.tastingDate, <<"Your Tasting">>)>>,
             <<Tok("firstName"), v.firstName>>>>
      [] key = "booking-confirmation" ->
           <<<<Tok("eventDate"), TextOr(v.eventDate, <<"Your Event">>)>>,
             <<Tok("firstName"), v.firstName>>,
             <<Tok("eventType"), TextOr(v.eventType, <<"celebration">>)>>>>
      [] OTHER ->
           <<<<Tok("firstName"), v.firstName>>,
             <<Tok("eventType"), TextOr(v.eventType, <<"celebration">>)>>,
             <<Tok("eventDate"), TextOr(v.eventDate, <<"your upcoming event">>)>>>>

\* The body text a builder starts from: template?.body || default.body.
sourceBody(key, template) == TextOr(template.body, defaultTemplate(key).body)

\* The subject line and the builder's bodyText of the loaded template.
buildNotification ==
    /\ draft.stage = "loaded"
    /\ draft' = [draft EXCEPT
                   !.stage = "rendered",
                   !.subject = replaceEach(draft.template.subject,
                                           subjectChain(draft.key, draft.vals)),
                   !.body = replaceEach(sourceBody(draft.key, draft.template),
                                        bodyChain(draft.key, draft.vals))]
    /\ UNCHANGED <<storeVars, outbox, req, sweep, pay, now, faults, started>>

\* Template texts an administrator may store: up to MaxPieces pieces, each a
\* placeholder the builders know, one they do not, or plain text.
MaxPieces == 3
Pieces == {Tok("firstName"), Tok("amount"), Tok("eventType"), Tok("lastName"), <<"Hi ">>}
RECURSIVE Texts(_)
Texts(n) ==
    IF n = 0 THEN {<<>>}
    ELSE Texts(n - 1) \cup {t \o p : t \in Texts(n - 1), p \in Pieces}
Subjects == {<<>>, Tok("firstName") \o <<" - ">> \o Tok("amount")}
Overrides ==
    {[type |-> "null"], [type |-> "string", text |-> <<"a", "b">>]}
    \cup {[type |-> "object", fields |-> [subject |-> t, body |-> b]] :
             t \in Subjects, b \in Texts(MaxPieces)}
    \cup {[type |-> "object", fields |-> [subject |-> t]] : t \in Subjects}
    \cup {[type |-> "object", fields |-> [body |-> b]] : b \in Texts(MaxPieces)}

\* The 'email_templates' row: none, a text that is not JSON, JSON null, an
\* object without the key, an object with an override of the key.
SettingsFor(key) ==
    {NoSettings,
     [row |-> TRUE, parses |-> FALSE, object |-> FALSE, custom |-> NoCustom],
     [row |-> TRUE, parses |-> TRUE, object |-> FALSE, custom |-> NoCustom],
     [row |-> TRUE, parses |-> TRUE, object |-> TRUE, custom |-> NoCustom]}
    \cup {[row |-> TRUE, parses |-> TRUE, object |-> TRUE, custom |-> [k \in {key} |-> o]] :
             o \in Overrides}

\* First names as getFirstName returns them (never empty), among them names
\* that hold a dollar sign or braces; the other values present or absent.
FirstNames == {<<"Ada">>, <<"$", "&">>, <<"$", "$">>, Tok("amount")}
Values ==
    {[firstName |-> f, amount |-> <<"$", "250.00">>, eventType |-> e,
      eventDate |-> IF d THEN <<"Saturday, June 6, 2026">> ELSE Absent,
      balanceDueDate |-> IF d THEN <<"May 23, 2026">> ELSE Absent,
      tastingDate |-> IF d THEN <<"Friday, May 1, 2026">> ELSE Absent,
      tastingTime |-> Absent, venue |-> Absent,
      depositUrl |-> <<"https://portal.kennagiuziocake.com/invoices/deposit-invoice.html">>] :
       f \in FirstNames, e \in {Absent, <<"Wedding">>}, d \in BOOLEAN}

InitTpl ==
    /\ \E key \in TemplateKeys :
         /\ settings \in SettingsFor(key)
         /\ \E v \in Values :
              draft = [stage |-> "new", key |-> key, vals |-> v,
                       template |-> defaultTemplate(key), subject |-> <<>>, body |-> <<>>]
    /\ invoices = {}
    /\ nextInvoiceId = 1
    /\ clients = [c \in Clients |-> [status |-> "inquiry", eventDate |-> NoDate, email |-> TRUE]]
    /\ portal = [c \in Clients |-> NoPortalRow]
    /\ calendar = EmptyBag
    /\ revenue = EmptyBag
    /\ ledger = EmptyBag
    /\ proposals = {}
    /\ outbox = EmptyBag
    /\ req = [s \in Slots |-> Idle("")]
    /\ sweep = [k \in Slots |-> NoSweep]
    /\ pay = [invoiceId |-> NoInvoice, invoiceType |-> NoType, clientId |-> NoClient,
              hasEmail |-> FALSE, amount |-> 25000]
    /\ now = 0
    /\ faults = 0
    /\ started = 0

NextTpl ==
    \/ \E ok \in BOOLEAN : getTemplate(ok)
    \/ buildNotification

SpecTpl == InitTpl /\ [][NextTpl]_vars

\* ================================================================ properties
Only(bag, Keep(_)) == [e \in {x \in DOMAIN bag : Keep(x)} |-> bag[e]]
StripeRevenueEntries == BagCardinality(Only(revenue, LAMBDA e : e.ref = "stripe"))
StripeClientMails ==
    BagCardinality(Only(outbox, LAMBDA m : m.to = "client" /\ m.ref = "stripe"))

\* C1: however often the processor delivers the same completion event, the
\* store holds at most one RevenueEntry for it and the client has been sent at
\* most one confirmation (stated for runs without any store or mail failure).
C1_CompletionAppliedOnce ==
    faults = 0 => StripeRevenueEntries <= 1 /\ StripeClientMails <= 1

\* C4: once an invoice is paid, no step leaves it with another status.
C4_PaidIsTerminal ==
    [][\A r \in invoices : r.status = "paid" =>
          \A q \in invoices' : q.id = r.id => q.status = "paid"]_vars

\* C5: a completion event whose invoice number the store does not know takes
\* the insert branch, and the accepted insert leaves exactly one invoice of
\* that number: paid, with the event's amount, all other rows untouched.  No
\* step ever leaves two rows of the number.
C5_UnknownInvoiceCreatedPaid ==
    [][/\ Cardinality(InvoiceByNumber(pay.invoiceId)') <= 1
       /\ \A s \in Slots :
            /\ (/\ HpcInvoiceUpdate(s, TRUE)
                /\ pay.invoiceId # NoInvoice
                /\ InvoiceByNumber(pay.invoiceId) = {}) => req'[s].pc = "insert"
            /\ (HpcInvoiceInsert(s, TRUE) /\ InsertAccepted(pay.invoiceId)) =>
                 /\ \E r \in invoices' :
                      /\ InvoiceByNumber(pay.invoiceId)' = {r}
                      /\ r.status = "paid"
                      /\ r.amount = pay.amount
                 /\ invoices \subseteq invoices'
                 /\ Cardinality(invoices') = Cardinality(invoices) + 1]_vars

C5_Witness ==
    /\ faults = 0
    /\ started = 1
    /\ \E r \in invoices :
         /\ invoices = {r}
         /\ r.number = pay.invoiceId
         /\ r.method = "card"
         /\ r.status = "paid"
         /\ r.amount = pay.amount

\* C6: no step of the offline-claimed handler appends revenue or makes an
\* invoice paid; its invoice statement, when the store accepts it, leaves the
\* named invoice pending_verification.
C6_ClaimNeverPays ==
    [][\A s \in Slots :
         (req[s].h = "claim" /\ req'[s] # req[s]) =>
            /\ revenue' = revenue
            /\ \A q \in invoices' : q.status = "paid" => q \in invoices
            /\ (/\ req[s].pc \in {"update", "insert"}
                /\ req'[s].pc = "notify"
                /\ faults' = faults
                /\ pay.invoiceId # NoInvoice
                /\ req[s].pc = "insert" => InsertAccepted(pay.invoiceId)) =>
                 /\ InvoiceByNumber(pay.invoiceId)' # {}
                 /\ \A q \in InvoiceByNumber(pay.invoiceId)' :
                      q.status = "pending_verification"]_vars

C6_Witness ==
    /\ \E s \in Slots : req[s].resp = "200 pending_verification"
    /\ started = 1
    /\ revenue = EmptyBag
    /\ \E r \in invoices :
         /\ r.number = pay.invoiceId
         /\ r.status = "pending_verification"
         /\ r.method = PaymentMethod

\* The 7 prep days D-7 .. D-1 and the event day D of client c.
PrepWeekAndEvent(c, D) ==
    SetToBag({[client |-> c, type |-> "prep", date |-> D - k] : k \in 1..7}
             \cup {[client |-> c, type |-> "event", date |-> D]})

C10_BadSignatureRejected ==
    [][\A s \in Slots, secret \in BOOLEAN, etype \in EventTypes :
         Webhook(s, secret, etype, FALSE) =>
            /\ req'[s] = Idle("400 Webhook Error")
            /\ UNCHANGED <<storeVars, outbox>>]_vars

\* The rejection where STRIPE_WEBHOOK_SECRET is set: there every request whose
\* signature does not verify is answered 400 and processed no further.
BadSignatureRejectedWhenSecretSet ==
    [][\A s \in Slots, etype \in EventTypes :
         Webhook(s, TRUE, etype, FALSE) =>
            /\ req'[s] = Idle("400 Webhook Error")
            /\ UNCHANGED <<storeVars, outbox>>]_vars

RejectedWebhook ==
    /\ \E s \in Slots : req[s] = Idle("400 Webhook Error")
    /\ started = 1
    /\ revenue = EmptyBag
    /\ outbox = EmptyBag

\* ------------------------------------------------------ reminder properties
ReminderMails(c, kind) ==
    CopiesIn([to |-> "client", client |-> c, kind |-> kind, ref |-> "sweep"], outbox)
LedgerRows(c, kind) == CopiesIn([client |-> c, type |-> kind], ledger)

\* The spec's assumption: a client has at most one signed proposal.
OneSignedProposalPerClient ==
    \A p, q \in proposals :
       (p.status = "signed" /\ q.status = "signed" /\ p.client = q.client) => p.id = q.id

\* Sweeps that ran one after the other: the second slot was never needed.
SequentialSweeps == \A k \in Slots : k > 1 => sweep[k] = NoSweep

\* C2: over sweeps that run one after the other, whatever fails, no client is
\* sent a reminder of one kind twice (no reset takes place in SpecRem).
C2_EachReminderAtMostOnce ==
    (OneSignedProposalPerClient /\ SequentialSweeps) =>
       \A c \in Clients, kind \in ReminderKinds : ReminderMails(c, kind) <= 1

\* C3: the ledger never holds two rows of one (client, kind) pair, however the
\* sweeps interleave (no reset takes place in SpecRem).
C3_LedgerUnique ==
    OneSignedProposalPerClient =>
       \A c \in Clients, kind \in ReminderKinds : LedgerRows(c, kind) <= 1

\* A client the deposit-reminder sweep owes a reminder: a proposal signed
\* more than 24 hours ago, no deposit revenue, no deposit-reminder ledger row.
OwedDepositReminder(c) ==
    /\ \E p \in proposals : p.client = c /\ p.status = "signed" /\ now - p.signedAt > 24
    /\ \A r \in BagToSet(revenue) : ~(r.client = c /\ r.type = "deposit")
    /\ LedgerRows(c, "deposit-reminder") = 0

\* The rows the loop of sweep k has finished.
Finished(k) == IF sweep[k].pc = "done" THEN Len(sweep[k].cands) ELSE sweep[k].pos - 1

TwoWeekStep(c) ==
    \/ ReminderMails(c, "two_week")' > ReminderMails(c, "two_week")
    \/ LedgerRows(c, "two_week")' > LedgerRows(c, "two_week")

\* The sweep, meeting a client whose window's reminder is in the ledger, goes
\* on to the next client and changes neither outbox nor store.
SkipsRemindedClient ==
    \A k \in Slots :
       (/\ EventCheck(k, TRUE)
        /\ WindowOf(daysUntil(Candidate(k))) # "none"
        /\ LedgerRows(Candidate(k), WindowOf(daysUntil(Candidate(k)))) > 0) =>
          /\ UNCHANGED <<storeVars, outbox>>
          /\ sweep'[k].pc \in {"check", "done"}
          /\ sweep'[k].pc = "check" => sweep'[k].pos = sweep[k].pos + 1

\* C9 (as stated): the sweep skips a client whose window's reminder is in the
\* ledger, and no client whose event is more than 14 days (336 hours) away is
\* sent the two-week reminder.
C9_NoRepeatNoEarlyTwoWeek ==
    [][/\ SkipsRemindedClient
       /\ \A c \in Clients : TwoWeekStep(c) => EventInstant(c) - now <= 14 * 24]_vars

\* C9 (amended): the sweep skips a client whose window's reminder is in the
\* ledger, and no client whose event is 15 days (360 hours) or more away,
\* that is more than 14 whole days counted rounding down, is sent the two-week
\* reminder.
C9_NoRepeatNoTwoWeekBeyondFourteenWholeDays ==
    [][/\ SkipsRemindedClient
       /\ \A c \in Clients : TwoWeekStep(c) => EventInstant(c) - now < 15 * 24]_vars

\* Scenario B: 20 days out, the one-month row present; the sweep has passed
\* client 1 without a mail or a new row.
C9_Witness ==
    /\ now = 1001
    /\ daysUntil(1) = 20
    /\ LedgerRows(1, "one_month") = 1
    /\ sweep[1].kind = "events"
    /\ sweep[1].cands[1] = 1
    /\ Finished(1) >= 1
    /\ started = 1
    /\ faults = 0
    /\ outbox = EmptyBag
    /\ LedgerRows(1, "two_week") = 0

\* ------------------------------------------- completion effects, validation
OfflineRevenueEntries == BagCardinality(Only(revenue, LAMBDA e : e.ref = "offline"))
OfflineClientMails ==
    BagCardinality(Only(outbox, LAMBDA m : m.to = "client" /\ m.ref = "offline"))
OfflineOwnerMails(kind) ==
    BagCardinality(Only(outbox, LAMBDA m : m.to = "owner" /\ m.ref = "offline" /\ m.kind = kind))

PaidFlagOf(type) ==
    CASE type = "tasting" -> "tastingPaid"
      [] type = "deposit" -> "depositPaid"
      [] OTHER -> "finalPaid"

\* C11: a verification that was the only request, for a known invoice of a
\* client with an email address, answered without any failure and with the
\* client's confirmation sent, has applied all five effects: the invoice is
\* paid, the client's PortalData flag of the invoice type is set, one
\* RevenueEntry was appended, the owner was notified, the client was notified.
C11_VerifyAppliesFullEffectSet ==
    (/\ \E s \in Slots : req[s].resp = "200 verified"
     /\ started = 1
     /\ faults = 0
     /\ pay.invoiceId # NoInvoice
     /\ InvoiceByNumber(pay.invoiceId) # {}
     /\ pay.clientId # NoClient
     /\ pay.invoiceType # NoType
     /\ OfflineClientMails = 1) =>
       /\ \A r \in InvoiceByNumber(pay.invoiceId) : r.status = "paid"
       /\ portal[pay.clientId][PaidFlagOf(pay.invoiceType)]
       /\ OfflineRevenueEntries = 1
       /\ OfflineOwnerMails("payment-received") = 1

Rejections == {"400 Webhook Error", "400 Missing required field: amount"}

\* C12: a claim, verification or completion request that lacks an amount or
\* lacks an invoice identifier is answered 4xx at its first step, and that
\* step changes neither the store nor the outbox.
C12_InvalidRequestRejected ==
    [][\A s \in Slots :
         /\ \A hasAmount \in BOOLEAN :
              (/\ OfflineClaimed(s, hasAmount) \/ OfflineVerify(s, hasAmount)
               /\ ~hasAmount \/ pay.invoiceId = NoInvoice) =>
                 /\ req'[s].pc = "idle"
                 /\ req'[s].resp \in Rejections
                 /\ UNCHANGED <<storeVars, outbox>>
         /\ \A etype \in CompletionEventTypes, secret \in BOOLEAN :
              (Webhook(s, secret, etype, TRUE) /\ pay.invoiceId = NoInvoice) =>
                 /\ req'[s].pc = "idle"
                 /\ req'[s].resp \in Rejections
                 /\ UNCHANGED <<storeVars, outbox>>]_vars

\* The half of it the routes do enforce: a claim or verification without an
\* amount is answered 400 and changes nothing.
MissingAmountRejected ==
    [][\A s \in Slots :
         (OfflineClaimed(s, FALSE) \/ OfflineVerify(s, FALSE)) =>
            /\ req'[s] = Idle("400 Missing required field: amount")
            /\ UNCHANGED <<storeVars, outbox>>]_vars

\* The position that follows each effect of handlePaymentCompleted.
NextEffect(pc) ==
    CASE pc = "invoice" -> {"insert", "client"}
      [] pc = "insert" -> {"client"}
      [] pc = "client" -> {"revenue"}
      [] pc = "revenue" -> {"owner"}
      [] pc = "owner" -> {"mail"}
      [] OTHER -> {"idle"}

\* What has been applied stays applied across a step.
NothingRolledBack ==
    /\ \A r \in invoices :
         r.status = "paid" => \E q \in invoices' : q.id = r.id /\ q.status = "paid"
    /\ \A c \in Clients :
         /\ clients[c].status = "booked" => clients'[c].status = "booked"
         /\ \A flag \in {"exists", "tastingPaid", "depositPaid", "finalPaid"} :
              portal[c][flag] => portal'[c][flag]
    /\ calendar \sqsubseteq calendar'
    /\ revenue \sqsubseteq revenue'
    /\ outbox \sqsubseteq outbox'

\* C13: every step of the completion handler, failing or not, goes on to the
\* next of the five effects (the last one to the route's answer) and rolls
\* nothing back; a failing step is one of them.
C13_EffectFailuresAreIsolated ==
    [][\A s \in Slots :
         (req[s].h = "webhook" /\ req'[s] # req[s]) =>
            /\ req'[s].pc \in NextEffect(req[s].pc)
            /\ req'[s].pc = "idle" => req'[s].resp = "200 received"
            /\ NothingRolledBack
            /\ faults' > faults => req'[s].pc # "insert"]_vars

\* The invoice statement failed, and the other four effects took place.
C13_Witness ==
    /\ \E s \in Slots : req[s].resp = "200 received"
    /\ started = 1
    /\ faults = 1
    /\ pay.invoiceId # NoInvoice
    /\ pay.clientId # NoClient
    /\ pay.invoiceType = "deposit"
    /\ \E r \in invoices : r.number = pay.invoiceId /\ r.status = "sent"
    /\ portal[pay.clientId].depositPaid
    /\ clients[pay.clientId].status = "booked"
    /\ StripeRevenueEntries = 1
    /\ StripeClientMails = 1
    /\ BagIn([to |-> "owner", client |-> pay.clientId, kind |-> "payment-received",
              ref |-> "stripe"], outbox)

\* ------------------------------------------------- sweeps: record and failure
\* Sweep k is at the statement that sends its candidate's reminder (for the
\* deposit sweep also the owner's note that follows it).
AtSend(k) == sweep[k].pc \in {"send", "owner"}

\* The reminder kind sweep k is sending its candidate.
KindAt(k) == IF sweep[k].kind = "deposit" THEN "deposit-reminder" ELSE sweep[k].win

\* C14: a step adds a ledger row only as the record statement of a sweep,
\* one row, of the sweep's candidate and kind, and a sweep is at its record
\* statement only when the transport has accepted that reminder for that
\* client; a send that fails writes no row and moves the sweep past the
\* record statement; and a client a lone deposit sweep has passed without a
\* row is still owed the reminder.
C14_RecordOnlyAfterConfirmedSend ==
    /\ [][\A c \in Clients, kind \in ReminderKinds :
            LedgerRows(c, kind)' # LedgerRows(c, kind) =>
               /\ LedgerRows(c, kind)' = LedgerRows(c, kind) + 1
               /\ \E k \in Slots :
                    /\ sweep[k].pc = "record"
                    /\ sweep'[k] # sweep[k]
                    /\ Candidate(k) = c
                    /\ KindAt(k) = kind]_vars
    /\ [][\A k \in Slots :
            (AtSend(k) /\ sweep'[k] # sweep[k] /\ faults' > faults) =>
               /\ ledger' = ledger
               /\ outbox' = outbox
               /\ sweep'[k].pc \in {"send", "check", "done"}
               /\ sweep'[k].pc # "done" => sweep'[k].pos = sweep[k].pos + 1]_vars
    /\ [](\A k \in Slots :
            sweep[k].pc = "record" => ReminderMails(Candidate(k), KindAt(k)) >= 1)
    /\ [](\A k \in Slots :
            (sweep[k].kind = "deposit" /\ started = 1) =>
               \A i \in 1..Finished(k) :
                  LedgerRows(sweep[k].cands[i], "deposit-reminder") = 0 =>
                     OwedDepositReminder(sweep[k].cands[i]))

\* A lone deposit sweep whose send to client 1 failed: no mail, no row, and
\* client 1 is still owed the reminder; client 2 was served.
C14_Witness ==
    /\ sweep[1].kind = "deposit"
    /\ sweep[1].pc = "done"
    /\ started = 1
    /\ faults = 1
    /\ Len(sweep[1].cands) = 2
    /\ ReminderMails(1, "deposit-reminder") = 0
    /\ LedgerRows(1, "deposit-reminder") = 0
    /\ OwedDepositReminder(1)
    /\ ReminderMails(2, "deposit-reminder") = 1
    /\ LedgerRows(2, "deposit-reminder") = 1

\* C15: a failure while sweep k handles one candidate (its ledger check, its
\* invoice, its send, its ledger write) leaves the sweep running: with
\* candidates left, it goes on to the next one.
C15_FailureDoesNotAbortSweep ==
    [][\A k \in Slots :
         (/\ Running(k)
          /\ sweep'[k] # sweep[k]
          /\ faults' > faults
          /\ sweep[k].pos < Len(sweep[k].cands)) =>
            /\ sweep'[k].pc # "done"
            /\ sweep'[k].pos = sweep[k].pos + 1]_vars

\* ------------------------------------------------------ template properties
Occurrences(text, pat) ==
    Cardinality({i \in 1..Len(text) : StartsWith(Drop(text, i - 1), pat)})

\* C16: in the rendered body, each placeholder the builder knows is gone, and
\* its value stands once for every occurrence the placeholder had in the
\* template body (stated for the values that are not empty).
C16_EveryOccurrenceReplaced ==
    draft.stage = "rendered" =>
       LET chain == bodyChain(draft.key, draft.vals)
           src == sourceBody(draft.key, draft.template)
       IN  \A i \in DOMAIN chain :
              chain[i][2] # <<>> =>
                 /\ Occurrences(draft.body, chain[i][1]) = 0
                 /\ Occurrences(draft.body, chain[i][2]) = Occurrences(src, chain[i][1])

\* The same for a first name of plain text: there it holds.
PlainFirstNameRendered ==
    (draft.stage = "rendered" /\ draft.vals.firstName = <<"Ada">>) =>
       LET chain == bodyChain(draft.key, draft.vals)
           src == sourceBody(draft.key, draft.template)
       IN  \A i \in DOMAIN chain :
              chain[i][2] # <<>> =>
                 /\ Occurrences(draft.body, chain[i][1]) = 0
                 /\ Occurrences(draft.body, chain[i][2]) = Occurrences(src, chain[i][1])

\* C17: the loaded template is the override merged over the default field by
\* field.  With an override object for the key, each of subject and body is
\* the override's where the override has the field and the default's where it
\* has not; with no row, a value that does not parse, a value or an override
\* that is not an object, or a failed read, subject and body are the default's.
C17_OverrideMergedOverDefault ==
    draft.stage \in {"loaded", "rendered"} =>
       LET def == defaultTemplate(draft.key)
           t == draft.template
       IN  IF /\ faults = 0
              /\ settings.row /\ settings.parses /\ settings.object
              /\ draft.key \in DOMAIN settings.custom
              /\ settings.custom[draft.key].type = "object"
             THEN \A f \in {"subject", "body"} :
                     t[f] = IF f \in DOMAIN settings.custom[draft.key].fields
                              THEN settings.custom[draft.key].fields[f]
                              ELSE def[f]
             ELSE t.subject = def.subject /\ t.body = def.body

\* An override that supplies only the subject: its subject, the default body.
C17_Witness ==
    /\ draft.stage = "loaded"
    /\ faults = 0
    /\ draft.key \in DOMAIN settings.custom
    /\ settings.custom[draft.key].type = "object"
    /\ DOMAIN settings.custom[draft.key].fields = {"subject"}
    /\ draft.template.subject = Tok("firstName") \o <<" - ">> \o Tok("amount")
    /\ draft.template.subject # defaultTemplate(draft.key).subject
    /\ draft.template.body = defaultTemplate(draft.key).body

HasPlaceholder(text) ==
    \E i \in 1..Len(text) : i + 2 <= Len(text) /\ text[i] = "{" /\ text[i + 2] = "}"

\* C18: the rendered subject and body hold no placeholder of the form {name}
\* (stated for a first name of plain text).
C18_NoPlaceholderRemains ==
    (draft.stage = "rendered" /\ draft.vals.firstName = <<"Ada">>) =>
       ~HasPlaceholder(draft.subject) /\ ~HasPlaceholder(draft.body)

\* ------------------------------------------------------------ reset, answers
\* Client c is selected by the deposit-reminder query.
InDepositQuery(c) == \E p \in DepositReminderRows : p.client = c

\* C19: a reset for client c leaves no ledger row of c, leaves the rows of
\* every other client and the rest of the store as they were, and makes c
\* eligible again: the ledger check of every kind finds nothing for c, and if
\* c lacked only the ledger's consent to be in the deposit-reminder query, c
\* is in it now.
C19_ResetClearsOnlyThatClient ==
    [][\A s \in Slots, c \in Clients :
         ResetReminders(s, c, TRUE, TRUE) =>
            /\ \A kind \in ReminderKinds :
                 /\ LedgerRows(c, kind)' = 0
                 /\ ~HasLedgerRow(c, kind)'
            /\ \A d \in Clients \ {c}, kind \in ReminderKinds :
                 LedgerRows(d, kind)' = LedgerRows(d, kind)
            /\ BagCardinality(ledger') =
                 BagCardinality(ledger) - BagCardinality(Only(ledger, LAMBDA e : e.client = c))
            /\ UNCHANGED <<invoices, nextInvoiceId, clients, portal, calendar, revenue,
                           proposals, settings, outbox>>
            /\ (\E p \in DepositReminderRows_NoLedger : p.client = c) => InDepositQuery(c)']_vars

\* A deposit sweep reminded both clients, then client 1 was reset: its row is
\* gone, client 2's is there, and client 1 is back in the deposit query.
C19_Witness ==
    /\ \E s \in Slots : req[s].resp = "200 Reminders reset"
    /\ started = 2
    /\ faults = 0
    /\ ReminderMails(1, "deposit-reminder") = 1
    /\ LedgerRows(1, "deposit-reminder") = 0
    /\ ReminderMails(2, "deposit-reminder") = 1
    /\ LedgerRows(2, "deposit-reminder") = 1
    /\ InDepositQuery(1)

\* C20: whatever fails while a webhook or verification request notifies the
\* owner or the client (token read, document generator, mail transport), the
\* request goes on to its answer, and the answer is the success one.
C20_NotificationFailureKeepsSuccess ==
    [][\A s \in Slots :
         (/\ req[s].h \in {"webhook", "verify"}
          /\ req[s].pc \in {"owner", "mail"}
          /\ req'[s] # req[s]) =>
            /\ UNCHANGED storeVars
            /\ req'[s].pc \in {"mail", "idle"}
            /\ req'[s].pc = "idle" =>
                 req'[s].resp = IF req[s].h = "webhook" THEN "200 received" ELSE "200 verified"]_vars

\* A lone verification that made the invoice paid, set the client's flag and
\* appended the revenue; its confirmation mail failed; the answer is success.
C20_Witness ==
    /\ \E s \in Slots : req[s].resp = "200 verified"
    /\ started = 1
    /\ faults = 1
    /\ pay.hasEmail
    /\ pay.clientId # NoClient
    /\ pay.invoiceType = "final"
    /\ \E r \in invoices : r.number = pay.invoiceId /\ r.status = "paid"
    /\ portal[pay.clientId].finalPaid
    /\ OfflineRevenueEntries = 1
    /\ OfflineClientMails = 0

\* ------------------------------------------------ invoice upsert and lifecycle
\* C21: when the invoice statements of a completion (webhook or verification)
\* naming an invoice number have run without a store failure or rejection,
\* an invoice of that number exists and is paid, whether or not one existed.
C21_CompletionLeavesPaidInvoice ==
    [][\A s \in Slots :
         (/\ req[s].h \in {"webhook", "verify"}
          /\ req[s].pc \in {"invoice", "insert"}
          /\ req'[s].pc = "client"
          /\ faults' = faults
          /\ pay.invoiceId # NoInvoice
          /\ req[s].pc = "insert" => InsertAccepted(pay.invoiceId)) =>
            \E r \in invoices' : r.number = pay.invoiceId /\ r.status = "paid"]_vars

\* The first request of a behaviour is a completion (webhook or verification)
\* that finds its invoice already paid when it is invoked.
InvokedOnPaidInvoice ==
    /\ started = 1
    /\ req[1].h \in {"webhook", "verify"}
    /\ req[1].pc = "invoice"
    /\ \E r \in invoices : r.number = pay.invoiceId /\ r.status = "paid"

\* No RevenueEntry, calendar entry or PortalData field has been written yet.
NoCompletionEffects ==
    /\ revenue = EmptyBag
    /\ calendar = EmptyBag
    /\ portal = [c \in Clients |-> NoPortalRow]

\* C22: a completion invoked for an invoice that is already paid short-circuits:
\* while it is the only request handled, no RevenueEntry and no calendar entry
\* is added and no PortalData field changes.
C22_PaidInvoiceShortCircuits ==
    [](InvokedOnPaidInvoice => [](started = 1 => NoCompletionEffects))

\* The invoice state machine: draft -> sent -> pending_verification -> paid,
\* sent -> paid, and any non-terminal state -> cancelled.
AllowedTransition(from, to) ==
    \/ from = "draft" /\ to = "sent"
    \/ from = "sent" /\ to \in {"pending_verification", "paid"}
    \/ from = "pending_verification" /\ to = "paid"
    \/ from \in {"draft", "sent", "pending_verification"} /\ to = "cancelled"

\* C23: every change of an invoice's status made by any operation follows an
\* allowed transition; in particular no draft invoice goes directly to paid.
C23_StatusFollowsStateMachine ==
    [][\A r \in invoices, q \in invoices' :
         r.id = q.id /\ r.status # q.status => AllowedTransition(r.status, q.status)]_vars

\* Slot s takes this step as an offline-claimed request.
ClaimStep(s) == req[s].h = "claim" /\ req'[s] # req[s]

\* C24: an offline claim whose invoice number has no row when its INSERT runs
\* creates exactly one invoice of that number, pending_verification, with the
\* claimed amount; a claim whose number has a row creates no invoice, and no
\* other statement of the claim creates one.
C24_ClaimCreatesOnePendingInvoice ==
    [][\A s \in Slots : ClaimStep(s) =>
         IF /\ req[s].pc = "insert"
            /\ faults' = faults
            /\ InvoiceByNumber(pay.invoiceId) = {}
           THEN \E r \in invoices' \ invoices :
                  /\ invoices' = invoices \cup {r}
                  /\ r.number = pay.invoiceId
                  /\ r.status = "pending_verification"
                  /\ r.amount = pay.amount
                  /\ \A q \in invoices : q.id # r.id
           ELSE {r.id : r \in invoices'} = {r.id : r \in invoices}]_vars

\* A lone claim for an unknown invoice number has created its invoice.
C24_Witness ==
    /\ started = 1
    /\ faults = 0
    /\ \E s \in Slots : At(s, "claim", "notify")
    /\ \E r \in invoices :
         /\ invoices = {r}
         /\ r.number = pay.invoiceId
         /\ r.status = "pending_verification"
         /\ r.amount = pay.amount
         /\ r.method = PaymentMethod

\* Slot s is a completion that has passed its revenue statement.
PastRevenue(s) ==
    \/ req[s].h = "webhook" /\ req[s].pc \in {"owner", "mail"}
    \/ req[s].h = "verify" /\ req[s].pc = "mail"

\* C25: a lone, failure-free completion without a client id, for a known
\* invoice, has changed no client, no PortalData and no calendar entry once
\* past its revenue statement, and has applied the financial effects: the
\* invoice is paid and one RevenueEntry of the event's amount and type exists.
C25_NoClientStillRecordsRevenue ==
    (/\ started = 1
     /\ faults = 0
     /\ pay.clientId = NoClient
     /\ pay.invoiceId # NoInvoice
     /\ InvoiceByNumber(pay.invoiceId) # {}
     /\ \E s \in Slots : PastRevenue(s)) =>
       /\ \A c \in Clients : clients[c].status = "inquiry"
       /\ portal = [c \in Clients |-> NoPortalRow]
       /\ calendar = EmptyBag
       /\ \A r \in InvoiceByNumber(pay.invoiceId) : r.status = "paid"
       /\ BagCardinality(revenue) = 1
       /\ \A e \in BagToSet(revenue) :
            e.amount = pay.amount /\ e.type = TypeOr(pay.invoiceType, "other")

\* ------------------------------------------------------- event-approach sweep
\* Sweep k takes this step at the head of the loop body of checkUpcomingEvents.
EventCheckStep(k) ==
    sweep[k].kind = "events" /\ sweep[k].pc = "check" /\ sweep'[k] # sweep[k]

\* Sweep k stays with its candidate after the step, to send it a reminder.
Selected(k) == sweep'[k].pos = sweep[k].pos /\ sweep'[k].pc \in {"invoice", "send"}

\* C26: with d the whole days to the candidate's event, the sweep selects the
\* candidate for the one-month reminder only if 14 < d <= 30 and for the
\* two-week reminder only if 0 < d <= 14, and for nothing with any other d;
\* the reminder it sends is the selected one, and a single sweep sends no
\* client both kinds.
C26_WindowsClassifyByWholeDays ==
    /\ [][\A k \in Slots : EventCheckStep(k) =>
            LET d == daysUntil(Candidate(k))
            IN  /\ Selected(k) =>
                     \/ 14 < d /\ d <= 30 /\ sweep'[k].win = "one_month"
                     \/ 0 < d /\ d <= 14 /\ sweep'[k].win = "two_week"
                /\ (~HasLedgerRow(Candidate(k), "one_month") /\ 14 < d /\ d <= 30
                      /\ faults' = faults) => Selected(k)
                /\ (~HasLedgerRow(Candidate(k), "two_week") /\ 0 < d /\ d <= 14
                      /\ faults' = faults) => Selected(k)]_vars
    /\ [][\A k \in Slots, c \in Clients, kind \in {"one_month", "two_week"} :
            (sweep[k].kind = "events" /\ sweep'[k] # sweep[k]
               /\ ReminderMails(c, kind)' > ReminderMails(c, kind)) =>
              c = Candidate(k) /\ kind = sweep[k].win]_vars
    /\ [](started = 1 =>
            \A c \in Clients :
               ReminderMails(c, "one_month") = 0 \/ ReminderMails(c, "two_week") = 0)

\* One sweep that ran across the boundary between the windows has sent client 2
\* only the one-month reminder (15 whole days) and client 1 only the two-week
\* reminder (14 whole days).
C26_Witness ==
    /\ started = 1
    /\ sweep[1].kind = "events"
    /\ sweep[1].pc = "done"
    /\ Len(sweep[1].cands) = 2
    /\ ReminderMails(2, "one_month") = 1
    /\ ReminderMails(1, "two_week") = 1
    /\ ReminderMails(1, "one_month") = 0
    /\ ReminderMails(2, "two_week") = 0

FinalInvoicesOf(c) == {r \in invoices : r.client = c /\ r.type = "final"}

\* C27: over sweeps that run one after the other, whatever fails and is
\* retried by a later sweep, a client has at most one final-type invoice.
C27_AtMostOneFinalInvoice ==
    SequentialSweeps => \A c \in Clients : Cardinality(FinalInvoicesOf(c)) <= 1

\* Client c is booked, its event is in the future and its final balance is
\* not paid.
Eligible(c) ==
    /\ clients[c].status = "booked"
    /\ clients[c].eventDate # NoDate
    /\ EventInstant(c) > now
    /\ ~portal[c].finalPaid

EventMails(c) == ReminderMails(c, "one_month") + ReminderMails(c, "two_week")

\* A running event-approach sweep has client c among the rows it has not
\* finished.
AwaitsEventSweep(c) ==
    \E k \in Slots :
       /\ sweep[k].kind = "events"
       /\ Running(k)
       /\ \E i \in sweep[k].pos..Len(sweep[k].cands) : sweep[k].cands[i] = c

MaxMails == 2

\* C28: the rows an event-approach sweep starts with are clients that are
\* booked, with a future event and finalPaid not true when its query runs; a
\* one-month or two-week reminder goes only to a row of a running sweep; and
\* once finalPaid is set for a client that no running sweep still holds, no
\* one-month or two-week reminder is sent to that client any more.
C28_RemindersOnlyWhileFinalUnpaid ==
    /\ [][\A k \in Slots :
            (sweep'[k].kind = "events" /\ sweep'[k] # sweep[k] /\ ~Running(k)) =>
               \A i \in DOMAIN sweep'[k].cands : Eligible(sweep'[k].cands[i])]_vars
    /\ [][\A c \in Clients : EventMails(c)' > EventMails(c) => AwaitsEventSweep(c)]_vars
    /\ \A c \in Clients, n \in 0..MaxMails :
          [](portal[c].finalPaid /\ ~AwaitsEventSweep(c) /\ EventMails(c) = n
               => [](EventMails(c) = n))

\* Client 1, reminded a month ahead, paid the final balance through the
\* processor; the sweep that ran afterwards, in its two-week window, took only
\* client 2 and sent client 1 nothing.
C28_Witness ==
    /\ LedgerRows(1, "one_month") = 1
    /\ portal[1].finalPaid
    /\ \E s \in Slots : req[s].resp = "200 received"
    /\ daysUntil(1) \in 1..14
    /\ sweep[1].kind = "events"
    /\ sweep[1].pc = "done"
    /\ sweep[1].cands = <<2>>
    /\ ReminderMails(2, "two_week") = 1
    /\ EventMails(1) = 0

\* ------------------------------------------------------ deposit-reminder sweep
\* Sweep k is among the deposit-reminder sweeps and holds client c.
HoldsDepositCandidate(k, c) ==
    sweep[k].kind = "deposit" /\ \E i \in DOMAIN sweep[k].cands : sweep[k].cands[i] = c

\* C29: every client a deposit-reminder sweep starts with has, when the query
\* runs, a proposal signed more than 24 hours ago, no deposit RevenueEntry and
\* no deposit-reminder ledger row; a deposit reminder goes only to the client
\* a deposit sweep is at, so a client the query left out is sent nothing by
\* that sweep.
C29_DepositSweepSelectsOnlyOwed ==
    /\ [][\A k \in Slots :
            (sweep'[k].kind = "deposit" /\ sweep'[k] # sweep[k] /\ ~Running(k)) =>
               \A i \in DOMAIN sweep'[k].cands : OwedDepositReminder(sweep'[k].cands[i])]_vars
    /\ [][\A c \in Clients :
            ReminderMails(c, "deposit-reminder")' > ReminderMails(c, "deposit-reminder") =>
               \E k \in Slots :
                  sweep[k].kind = "deposit" /\ Running(k) /\ Candidate(k) = c]_vars
    /\ [](started = 1 =>
            \A c \in Clients :
               ReminderMails(c, "deposit-reminder") > 0 =>
                  \E k \in Slots : HoldsDepositCandidate(k, c))

\* A sweep that ran 17 hours after client 2 signed took client 1 only, and
\* sent client 2 nothing.
C29_Witness ==
    /\ now = Instants[1]
    /\ started = 1
    /\ \E p \in proposals : p.client = 2 /\ p.status = "signed" /\ now - p.signedAt = 17
    /\ sweep[1].kind = "deposit"
    /\ sweep[1].pc = "done"
    /\ sweep[1].cands = <<1>>
    /\ ReminderMails(1, "deposit-reminder") = 1
    /\ ReminderMails(2, "deposit-reminder") = 0

\* C30: when overlapping event-approach sweeps evaluate the same candidate,
\* the ledger write guards: an insert for a (client, kind) pair that already
\* has a row adds no row.
C30_SecondLedgerInsertIsNoOp ==
    [][\A c \in Clients, kind \in {"one_month", "two_week"} :
         LedgerRows(c, kind) >= 1 => LedgerRows(c, kind)' <= LedgerRows(c, kind)]_vars

\* ------------------------------------------------- completions: client effects
\* Slot s takes this step as the client-status block of a completion.
ClientBlockStep(s) ==
    req[s].h \in {"webhook", "verify"} /\ req[s].pc = "client" /\ req'[s] # req[s]

\* Row q is row r but for the one paid flag (set or left) and the row's
\* existence.
OnlyFlag(r, q, flag) ==
    \A g \in {"tastingPaid", "depositPaid", "finalPaid"} : g # flag => q[g] = r[g]

\* C31: the client-status block of a completion touches the payment's client
\* only; for type tasting it sets tastingPaid and nothing else, for deposit
\* status booked and depositPaid, for final finalPaid and nothing else, each
\* leaving the other two paid flags as they were; any other type, or no
\* client, changes no client and no PortalData row.
C31_CompletionSetsOnlyItsFlag ==
    [][\A s \in Slots : ClientBlockStep(s) =>
         LET c == pay.clientId
             type == pay.invoiceType
         IN  IF c = NoClient \/ type \notin {"tasting", "deposit", "final"}
               THEN clients' = clients /\ portal' = portal
               ELSE /\ \A o \in Clients \ {c} : clients'[o] = clients[o] /\ portal'[o] = portal[o]
                    /\ clients'[c].eventDate = clients[c].eventDate
                    /\ clients'[c].email = clients[c].email
                    /\ OnlyFlag(portal[c], portal'[c], PaidFlagOf(type))
                    /\ type # "deposit" => clients'[c].status = clients[c].status
                    /\ faults' = faults =>
                         /\ portal'[c][PaidFlagOf(type)]
                         /\ type = "deposit" => clients'[c].status = "booked"]_vars

\* A lone final completion for a client whose tasting and deposit were paid
\* has set finalPaid and kept the other two flags.
C31_Witness ==
    /\ started = 1
    /\ faults = 0
    /\ pay.invoiceType = "final"
    /\ pay.clientId = 1
    /\ \E s \in Slots : req[s].h \in {"webhook", "verify"} /\ req[s].pc = "revenue"
    /\ portal[1] = [exists |-> TRUE, tastingPaid |-> TRUE, depositPaid |-> TRUE,
                    finalPaid |-> TRUE]
    /\ clients[1].status = "booked"

\* The position of a status in the pipeline inquiry, tasting, booked,
\* delivered, archived.
PipelineRank(st) ==
    CASE st = "inquiry" -> 1
      [] st = "tasting" -> 2
      [] st = "booked" -> 3
      [] st = "delivered" -> 4
      [] OTHER -> 5

\* C32: no step of a completion moves a client's status backward in the
\* pipeline; a delivered or archived client stays so.
C32_StatusNeverMovesBackward ==
    [][\A c \in Clients :
         PipelineRank(clients'[c].status) >= PipelineRank(clients[c].status)]_vars

\* ------------------------------------------------------------ revenue ledger
\* C33: RevenueEntry rows are append-only: every row of the table is still
\* there, with the same fields, after any step.
C33_RevenueAppendOnly ==
    [][\A e \in BagToSet(revenue) : CopiesIn(e, revenue') >= CopiesIn(e, revenue)]_vars

\* C34: when the webhook's completion has updated an existing invoice without
\* a store failure, the row's amount is the amount the event reports.
C34_AmountConvergesToEvent ==
    [][\A s \in Slots :
         (/\ At(s, "webhook", "invoice")
          /\ req'[s].pc = "client"
          /\ faults' = faults
          /\ InvoiceByNumber(pay.invoiceId) # {}) =>
            \A r \in invoices' : r.number = pay.invoiceId => r.amount = pay.amount]_vars

\* ------------------------------------------------------ reminders, eventually
\* Client c is in the window of reminder kind `kind` of the event sweep.
InWindow(c, kind) == Eligible(c) /\ WindowOf(daysUntil(c)) = kind

\* Client c has been sent the reminder and has its ledger row.
Reminded(c, kind) == ReminderMails(c, kind) >= 1 /\ LedgerRows(c, kind) >= 1

\* C35: with the timers firing again and again and finitely many failures, a
\* client owed the deposit reminder is eventually sent it and eventually has
\* its ledger row; a client in the window of an event reminder, without its
\* ledger row, is eventually sent it and has the row, unless it leaves the
\* window first.
C35_EligibleClientEventuallyReminded ==
    /\ \A c \in Clients :
          OwedDepositReminder(c) ~> Reminded(c, "deposit-reminder")
    /\ \A c \in Clients, kind \in {"one_month", "two_week"} :
          (InWindow(c, kind) /\ LedgerRows(c, kind) = 0)
             ~> (Reminded(c, kind) \/ ~InWindow(c, kind))

\* After a failed attempt (the mail went out, the ledger INSERT failed) a
\* later sweep has sent client 1 the reminder again and written the row.
C35_Witness ==
    /\ faults = 1
    /\ ReminderMails(1, "deposit-reminder") = 2
    /\ LedgerRows(1, "deposit-reminder") = 1
    /\ OneSignedProposalPerClient
    /\ \A k \in Slots : ~Running(k)

\* A proposal of client c signed more than 24 hours ago.
PastGrace(c) ==
    \E p \in proposals : p.client = c /\ p.status = "signed" /\ p.signedAt < now - GraceHours

\* C36: whichever endpoint or timer started it, a step that sends a deposit
\* reminder to a client sends it to one without deposit revenue whose
\* proposal was signed more than 24 hours before.
C36_ManualTriggerKeepsEligibility ==
    [][\A c \in Clients :
         ReminderMails(c, "deposit-reminder")' > ReminderMails(c, "deposit-reminder")
            => (~HasDepositRevenue(c) /\ PastGrace(c))]_vars

\* C37: no two invoice rows carry one invoice number, however completions
\* and claims for a number interleave.
C37_OneInvoicePerNumber ==
    \A r, q \in invoices : r.number = q.number => r.id = q.id

\* Two requests for a number the store did not know each found no row to
\* UPDATE and each ran its INSERT; one row of that number exists.
C37_Witness ==
    /\ faults = 0
    /\ nextInvoiceId = 3
    /\ \A s \in Slots : req[s].h \in {"webhook", "claim"} /\ req[s].pc \in {"client", "notify"}
    /\ \E r \in invoices : invoices = {r} /\ r.number = pay.invoiceId

\* sendDepositReminder returns in slot k after its client send went out.
ReturnsAfterClientSend(k) ==
    /\ sweep[k].kind = "deposit"
    /\ sweep[k].pc \in {"owner", "record"}
    /\ sweep'[k].pc \in {"send", "done"}

\* The ledger INSERT of slot k ran in this step and the store refused it.
InsertRefused(k) == sweep[k].pc = "record" /\ faults' # faults

\* C38: when sendDepositReminder returns after a successful client send, and
\* the store did not refuse the INSERT, the client's deposit-reminder ledger
\* row exists, whatever became of the owner's notification.
C38_ClientSendIsRecorded ==
    [][\A k \in Slots :
         (ReturnsAfterClientSend(k) /\ ~InsertRefused(k))
            => LedgerRows(Candidate(k), "deposit-reminder")' >= 1]_vars

\* C39: a deposit sweep sends no reminder to a client who has a deposit
\* RevenueEntry at the moment of the send, also when the entry was recorded
\* after the sweep selected the client.
C39_NoReminderOnceDepositRecorded ==
    [][\A k \in Slots :
         (/\ sweep[k].kind = "deposit"
          /\ sweep[k].pc = "send"
          /\ sweep'[k] # sweep[k]
          /\ ReminderMails(Candidate(k), "deposit-reminder")'
                > ReminderMails(Candidate(k), "deposit-reminder"))
            => ~HasDepositRevenue(Candidate(k))]_vars

\* The prep and event calendar entries of client c.
EntriesOf(c, cal) == [e \in {x \in DOMAIN cal : x.client = c} |-> cal[e]]

\* Slot s holds the first request, no other has arrived, and it takes this
\* step of the client update without failure.
LoneUpdateStep(s) ==
    /\ req[s].h = "put"
    /\ req'[s] # req[s]
    /\ started = 1
    /\ faults' = 0

\* The update of slot s gives a booked client another event date.
ChangesDateOfBooked(s) ==
    /\ req[s].isBooked
    /\ req[s].date # NoDate
    /\ req[s].date # req[s].oldDate

\* C40: when a client update that gave a booked client the new event date D'
\* answers, the client's calendar entries are exactly the 7 prep days
\* D'-7 .. D'-1 and the event day D'; no step of an update of a client that
\* is not booked, or that does not change the date, changes the calendar.
C40_DateChangeReplacesCalendar ==
    [][\A s \in Slots : LoneUpdateStep(s) =>
         IF ChangesDateOfBooked(s)
           THEN req'[s].h = "none" =>
                  EntriesOf(req[s].client, calendar') = PrepWeekAndEvent(req[s].client, req[s].date)
           ELSE calendar' = calendar]_vars

====
